---------------------------- MODULE Spec2Model ----------------------------
(***************************************************************************)
(* A model of dltp (twotwotwo/dltp): the copy/insert differ and its        *)
(* patcher (diff/diff.go), the delta-pack writer and reader                *)
(* (dpfile/dpfile.go), the page chunker's ReadNext/ReadTo                  *)
(* (mwxmlchunk/mwxmlchunk.go) and the random-access / parallel bzip2       *)
(* readers (bz2blocks/bzip2.go).                                           *)
(*                                                                         *)
(* Go slices are 0-based; sequences here are 1-based, so a[i] in the       *)
(* source is At(a, i) == a[i + 1] here.                                    *)
(***************************************************************************)
EXTENDS Integers, Sequences, FiniteSets, TLC

VARIABLES
    buzTbl,     \* diff.go: the table of the rolling hash (makeBuzTbl)
    ms,         \* diff.go: the MatchState under test
    nprior,     \* number of earlier Diff calls made on ms
    dphase,     \* "idle", "diffed" (Diff + Patch ran), "patched" (Patch ran on a raw stream)
    dA, dB,     \* the reference and target handed to Diff / Patch
    dstream,    \* the instruction stream given to Patch
    dres,       \* what Patch did with (dA, dstream)
    newDump,    \* dltp.go: the new dump, inNames[0]
    refDumps,   \* dltp.go: the reference dumps, inNames[1:]
    nworkers,   \* dpfile.go: runtime.NumCPU(), the number of doDiffTasks goroutines
    srcs,       \* DPWriter.sources: the SegmentReaders
    tasks,      \* DPWriter.tasks: the DiffTask slots
    taskCh,     \* DPWriter.taskCh: [q: the queued slots, closed]
    wk,         \* each doDiffTasks goroutine: "idle", "run" on a slot, or "exited"
    winner,     \* DPWriter.winner
    wpc,        \* where WriteDiffPack is: "ws", "ws_wait" (in WriteSegment), "close",
                \* "closed" (Close returned), "exited", "panic", or "off"
    pending,    \* WriteSegment's locals while it waits on <-t.done
    closeI,     \* Close's loop index
    wout,       \* the writes made to DPWriter.out after the preamble, in order
    pack,       \* the delta pack file: [hdr: the preamble lines, body: the bytes after it]
    corrupt,    \* the bit flipped in the pack file before it is read, if any
    dpr,        \* the DPReader, with what became of it
    bzFile,     \* bzip2.go: the bzip2 file being read
    bzMode,     \* how it was opened: "parallel", "readat", or "off"
    pr,         \* the parallelReader
    jobs,       \* parallelReader.jobs, each with its reader, its ready channel and
                \* whether its goroutine is running
    prCall,     \* the parallelReader.Read call in progress: len(p) and n
    prOut,      \* the bytes parallelReader.Read has put in its callers' buffers
    prRes,      \* what the last parallelReader.Read returned
    rdr,        \* the readerAt
    raRes,      \* the last ReadAt call and what it returned
    chFile,     \* mwxmlchunk.go: the pages of the dump a SegmentReader reads tag by tag
    chRdr,      \* that SegmentReader
    chOut,      \* what its ReadNext calls returned, in order
    rdSegs,     \* dpfile.go: the segments recorded in a delta pack handed to NewReader
    sraIn,      \* package stream: the reader under a StreamReaderAt
    sra,        \* the StreamReaderAt
    sraRes,     \* its last Read or ReadAt call and what it returned
    mgIn,       \* dltp.go: the dumps handed to Merge, leftmost first
    mg,         \* Merge's locals: readers, keys, text and lastKey
    mgOut,      \* the writes Merge has made to out, in order
    hfImpl,     \* httpfile: which of the two HTTPFile sources runs
    hfNet,      \* the response body: bytes left and how it ends
    hf,         \* the HTTPFile: its fields and the length of the local file
    dl,         \* the download goroutine: position, n and err of CopyN
    ntf,        \* the notify goroutine: position
    cl,         \* the goroutines that call Read and ReadAt
    bsIn,       \* package scan: the bytes of the stream under a Scanner
    bs,         \* the Scanner: offsets, length and capacities of its buffers
    bsCall,     \* the call in progress on it, with its arguments and locals
    bsRes,      \* the last call that returned, and what it returned
    cut,        \* CutStdinToStdout and its SegmentReader over the Scanner
    cutSegs,    \* what its ReadNext calls have returned
    cutOut      \* the bytes written to os.Stdout

diffVars == <<ms, nprior, dphase, dA, dB, dstream, dres>>

packVars == <<newDump, refDumps, nworkers, srcs, tasks, taskCh, wk, winner, wpc,
              pending, closeI, wout, pack, corrupt, dpr>>

bzVars == <<bzFile, bzMode, pr, jobs, prCall, prOut, prRes, rdr, raRes>>

chunkVars == <<chFile, chRdr, chOut>>

readVars == <<rdSegs>>

sraVars == <<sraIn, sra, sraRes>>

mergeVars == <<mgIn, mg, mgOut>>

httpVars == <<hfImpl, hfNet, hf, dl, ntf, cl>>

scanVars == <<bsIn, bs, bsCall, bsRes, cut, cutSegs, cutOut>>

extVars == <<chunkVars, readVars, sraVars, mergeVars, httpVars, scanVars>>

vars == <<buzTbl, diffVars, packVars, bzVars, extVars>>

-----------------------------------------------------------------------------
(* Bounds of the model *)

\* width of Go's int / int64 in the model (64 in the source)
IntBits == 8
\* width of hVal in the model (uint32 in the source)
hValBits == 6
\* longest text handed to Diff
MaxLen == 12
\* most earlier Diff calls on the MatchState before the observed one
MaxPrior == 6
\* longest raw instruction stream handed to Patch
MaxStream == 4
\* DPWriter.slots in the model (100 in the source)
NumSlots == 2
\* largest runtime.NumCPU()
MaxWorkers == 2
\* len(parallelReader.jobs), runtime.GOMAXPROCS(0)+2 in the source
NumJobs == 3
\* most blocks of a bzip2 file
MaxBlocks == 4
\* longest buffer handed to parallelReader.Read and readerAt.ReadAt
MaxBuf == 2
\* most ReadAt calls on a readerAt
MaxCalls == 2
\* most pages in a dump read tag by tag
MaxPages == 3
\* most revisions of one page
MaxRevs == 2
\* most records in a delta pack made by hand
MaxSegs == 3
\* most file names in a preamble made by hand
MaxNames == 3
\* longest stream under a StreamReaderAt
MaxSraLen == 4
\* most bytes its reader hands out in one Read
MaxChunk == 2
\* most dumps handed to Merge
MaxInputs == 3
\* most bytes of a response body
MaxBody == 3
\* most bytes asked for in one Read or ReadAt
MaxReq == 1
\* most calls of Read and ReadAt on one HTTPFile
MaxHfCalls == 2
\* the bytes of one io.CopyN of download (1 << 16 in the source), scaled down
copySize == 1

-----------------------------------------------------------------------------
(* Helpers *)

At(s, i) == s[i + 1]

\* Go's s[lo:hi]
Slice(s, lo, hi) == SubSeq(s, lo + 1, hi)

Min(a, b) == IF a < b THEN a ELSE b

RECURSIVE Xor(_, _)
Xor(a, b) ==
    IF a = 0 THEN b
    ELSE IF b = 0 THEN a
    ELSE ((a + b) % 2) + 2 * Xor(a \div 2, b \div 2)

MaxInt == 2^(IntBits - 1) - 1
MinInt == -(2^(IntBits - 1))

\* two's complement wrap of a Go int
WrapInt(x) == ((x - MinInt) % 2^IntBits) + MinInt

-----------------------------------------------------------------------------
(* encoding/binary varints, as called from diff.go and sourceref.go *)

MaxVarintLen == (IntBits + 6) \div 7

RECURSIVE PutUvarint(_)
PutUvarint(ux) ==
    IF ux >= 128 THEN <<(ux % 128) + 128>> \o PutUvarint(ux \div 128)
    ELSE <<ux>>

\* zig-zag: ux = (x << 1) ^ (x >> 63)
PutVarint(x) == PutUvarint(IF x >= 0 THEN 2 * x ELSE -2 * x - 1)

\* ReadUvarint on the unread part r of a reader: [ok, val, rest, err]
RECURSIVE ReadUvarintFrom(_, _, _, _)
ReadUvarintFrom(r, i, x, s) ==
    IF i >= MaxVarintLen THEN [ok |-> FALSE, val |-> x, rest |-> r, err |-> "overflow"]
    ELSE IF r = <<>> THEN [ok |-> FALSE, val |-> x, rest |-> r,
                           err |-> IF i > 0 THEN "unexpected EOF" ELSE "EOF"]
    ELSE LET b == Head(r) IN
         IF b < 128
         THEN IF i = MaxVarintLen - 1 /\ b > 2^(IntBits - 7 * (MaxVarintLen - 1)) - 1
              THEN [ok |-> FALSE, val |-> x, rest |-> Tail(r), err |-> "overflow"]
              ELSE [ok |-> TRUE, val |-> x + b * s, rest |-> Tail(r), err |-> ""]
         ELSE ReadUvarintFrom(Tail(r), i + 1, x + (b % 128) * s, s * 128)

ReadUvarint(r) == ReadUvarintFrom(r, 0, 0, 1)

ReadVarint(r) ==
    LET u == ReadUvarint(r) IN
    [u EXCEPT !.val = IF u.val % 2 = 1 THEN -(u.val \div 2) - 1 ELSE u.val \div 2]

-----------------------------------------------------------------------------
(* diff/diff.go: the differ *)

\* the bytes the diffed texts are made of
Byte == 0..1

hashSz == 131072
hMinMatch == 8

\* hMax is 0xFFFFFFFF in the source; hVal arithmetic wraps at this width
hMax == 2^hValBits - 1
hValWrap(x) == x % (hMax + 1)

\* A 64-bit hash value is kept as <<top, low>>: its two highest bits (all
\* hashMask ever selects) and its low 17 bits (all hBits selects).  makeBuzTbl
\* fills the table from math/rand: the model takes the table as an unknown.
\* The window has an even number of bytes, so over a two-byte alphabet only
\* buzTbl[0] XOR buzTbl[1] shows: it either passes the sparsity mask or not.
BuzTbls == { [b \in Byte |-> IF b = 0 THEN <<1, 5>> ELSE <<2, 6>>],
             [b \in Byte |-> IF b = 0 THEN <<1, 5>> ELSE <<1, 6>>] }

XorH(u, v) == <<Xor(u[1], v[1]), Xor(u[2], v[2])>>

RECURSIVE BitLen(_)
BitLen(r) == IF r > 0 THEN 1 + BitLen(r \div 2) ELSE 0

\* hashMask returns (1<<i - 1) << (64-i); the model keeps i, the number of
\* high bits that must be set.  (ratio is sz / hashSz with sz == hashSz.)
hashMask(sz, hSz) == BitLen((sz \div hashSz) * 2)

\* v & hMask != hMask, for a mask of i <= 2 high bits
PassesMask(v, i) == (v[1] \div 2^(2 - i)) = 2^i - 1

\* v & hBits, hBits being 0 or hashSz - 1
Bucket(v, hBits) == v[2] % (hBits + 1)

\* the table h: only the entries written since it was last zeroed are kept
EmptyTbl == [k \in {} |-> 0]
HGet(h, k) == IF k \in DOMAIN h THEN h[k] ELSE 0
HPut(h, k, x) == [j \in (DOMAIN h) \cup {k} |-> IF j = k THEN x ELSE h[j]]

\* a new MatchState (zero value; h == nil)
NewMatchState ==
    [A |-> <<>>, B |-> <<>>, alloc |-> FALSE, h |-> EmptyTbl, base |-> 0,
     hMask |-> 0, hBits |-> 0, cursor |-> 0, Out |-> <<>>, active |-> FALSE,
     panic |-> ""]

\* putLiteral with the sign of the length lost
putLiteralNegated(s, start, end) ==
    IF end = start THEN [s EXCEPT !.panic = "zero-length literal"]
    ELSE [s EXCEPT !.Out = s.Out \o PutVarint(-(end - start)) \o Slice(s.B, start, end),
                   !.cursor = s.cursor + (end - start),
                   !.B = Slice(s.B, end, Len(s.B))]

putLiteral(s, start, end) ==
    IF end = start THEN [s EXCEPT !.panic = "zero-length literal"]
    ELSE [s EXCEPT !.Out = s.Out \o PutVarint(end - start) \o Slice(s.B, start, end),
                   !.cursor = s.cursor + (end - start),
                   !.B = Slice(s.B, end, Len(s.B))]

putCopy(s, start, end) ==
    IF end = start THEN [s EXCEPT !.panic = "zero-length copy"]
    ELSE [s EXCEPT !.Out = s.Out \o PutVarint(-(end - start)) \o PutVarint(start - s.cursor),
                   !.cursor = end]

putEnd(s) == [s EXCEPT !.Out = s.Out \o <<0>>]

RECURSIVE XorWindow(_, _, _)
XorWindow(a, i, n) == IF i >= n THEN <<0, 0>> ELSE XorH(buzTbl[At(a, i)], XorWindow(a, i + 1, n))

RECURSIVE hashLoop(_, _, _, _, _, _, _, _)
hashLoop(a, i, v, h, base, offs, hMaskN, hBitsN) ==
    IF i >= Len(a) THEN h
    ELSE LET v1 == XorH(v, XorH(buzTbl[At(a, i)], buzTbl[At(a, i - hMinMatch)])) IN
         IF ~PassesMask(v1, hMaskN)
         THEN hashLoop(a, i + 1, v1, h, base, offs, hMaskN, hBitsN)
         ELSE hashLoop(a, i + 1, v1, HPut(h, Bucket(v1, hBitsN), hValWrap(i + base + offs)),
                       base, offs, hMaskN, hBitsN)

hash(s, a, offs) ==
    IF Len(a) < hMinMatch THEN s
    ELSE LET reset == s.alloc /\ hMax - Len(a) < s.base
             base  == IF reset THEN 0 ELSE s.base
             h0    == IF reset \/ ~s.alloc THEN EmptyTbl ELSE s.h
             hBitsN == hashSz - 1
             hMaskN == hashMask(hashSz, Len(a))
         IN [s EXCEPT !.base = IF reset THEN 0 ELSE s.base,
                      !.alloc = TRUE,
                      !.h = hashLoop(a, hMinMatch, XorWindow(a, 0, hMinMatch), h0,
                                     base, offs, hMaskN, hBitsN),
                      !.hMask = hMaskN,
                      !.hBits = hBitsN]

\* the backward loop of match: how many byte pairs agree going down from (x, y)
RECURSIVE MatchBack(_, _, _, _)
MatchBack(a, b, x, y) ==
    IF x >= 0 /\ y >= 0 /\ At(a, x) = At(b, y) THEN 1 + MatchBack(a, b, x - 1, y - 1) ELSE 0

RECURSIVE MatchFwd(_, _, _, _, _, _)
MatchFwd(a, b, aStart, bStart, l, lMax) ==
    IF l < lMax /\ At(a, aStart + l) = At(b, bStart + l)
    THEN MatchFwd(a, b, aStart, bStart, l + 1, lMax) ELSE l

\* the inner loop of match over b from position i: the first acceptable match,
\* "none", or a panic
RECURSIVE matchScan(_, _, _, _, _)
matchScan(s, a, b, i, v) ==
    IF i >= Len(b) THEN [kind |-> "none"]
    ELSE LET v1 == XorH(v, XorH(buzTbl[At(b, i)], buzTbl[At(b, i - hMinMatch)])) IN
         IF ~PassesMask(v1, s.hMask) THEN matchScan(s, a, b, i + 1, v1)
         ELSE LET hv == HGet(s.h, Bucket(v1, s.hBits)) IN
              IF hv < s.base THEN matchScan(s, a, b, i + 1, v1)
              ELSE LET aStart0 == hv - s.base IN
                   IF aStart0 > Len(a) THEN [kind |-> "panic", msg |-> "aStart was high"]
                   ELSE IF aStart0 = Len(a) THEN [kind |-> "panic", msg |-> "index out of range"]
                   ELSE LET k      == MatchBack(a, b, aStart0, i)
                            aStart == aStart0 - k + 1
                            bStart == i - k + 1
                            lMax   == Min(Len(a) - aStart, Len(b) - bStart)
                            l      == MatchFwd(a, b, aStart, bStart, k - 1, lMax)
                        IN IF l < hMinMatch THEN matchScan(s, a, b, i + 1, v1)
                           ELSE [kind |-> "match", aStart |-> aStart, bStart |-> bStart, l |-> l]

RECURSIVE matchFrom(_, _)

\* the outer loop of match after its inner loop ended with r
matchEmit(s, b, r) ==
    IF r.kind = "panic" THEN [s EXCEPT !.panic = r.msg]
    ELSE IF r.kind = "none" THEN putLiteral([s EXCEPT !.B = b], 0, Len(b))
    ELSE matchFrom(putCopy(IF r.bStart > 0 THEN putLiteral([s EXCEPT !.B = b], 0, r.bStart)
                           ELSE [s EXCEPT !.B = b],
                           r.aStart, r.aStart + r.l),
                   Slice(b, r.bStart + r.l, Len(b)))

\* the outer loop of match, b being what is left of s.B
matchFrom(s, b) ==
    IF s.panic # "" THEN s
    ELSE IF Len(b) <= hMinMatch \/ ~s.alloc
    THEN IF Len(b) > 0 THEN putLiteral([s EXCEPT !.B = b], 0, Len(b)) ELSE s
    ELSE matchEmit(s, b, matchScan(s, s.A, b, hMinMatch, XorWindow(b, 0, hMinMatch)))

match(s) == matchFrom(s, s.B)

\* Diff after match returned with s2
DiffEnd(s2) ==
    IF s2.panic # "" THEN s2
    ELSE [putEnd([s2 EXCEPT !.base = hValWrap(s2.base + Len(s2.A))]) EXCEPT !.active = FALSE]

\* MatchState.Diff on s.A, s.B, appending to s.Out
Diff(s) ==
    IF s.active THEN [s EXCEPT !.panic = "two users, one MatchState"]
    ELSE DiffEnd(match(hash([s EXCEPT !.active = TRUE, !.cursor = 0], s.A, 0)))

-----------------------------------------------------------------------------
(* diff/diff.go: Patch *)

\* What a call of Patch did: it returned outBuf (status "ok") or panicked.
\* kind tells the panics apart: "truncated" (the reader ended), "varint" (a
\* varint that does not fit), "check" (one of Patch's three cursor checks),
\* "runtime" (Go's own slice bounds check on a[cursor:cursor+copyLen]).
\* rest is what is left unread of the reader; reads are the indices of a
\* that were copied.
PatchResult(status, kind, msg, out, rest, reads) ==
    [status |-> status, kind |-> kind, msg |-> msg, out |-> out, rest |-> rest,
     reads |-> reads]

\* Patch's return at the terminator, with the reader read to its end
PatchEndDrained(outBuf, rest, reads) == PatchResult("ok", "", "", outBuf, <<>>, reads)

\* Patch's return at the terminator: rest is what follows it in the reader
PatchEnd(outBuf, rest, reads) == PatchResult("ok", "", "", outBuf, rest, reads)

RECURSIVE PatchLoop(_, _, _, _, _)
PatchLoop(a, diff, cursor, outBuf, reads) ==
    LET r == ReadVarint(diff) IN
    IF ~r.ok
    THEN IF r.err = "EOF"
         THEN PatchResult("panic", "truncated", "Truncated diff", outBuf, r.rest, reads)
         ELSE PatchResult("panic", IF r.err = "overflow" THEN "varint" ELSE "truncated",
                          r.err, outBuf, r.rest, reads)
    ELSE LET instrFirst == r.val IN
    IF instrFirst > 0
    THEN \* literal
         LET literalLen == instrFirst IN
         IF Len(r.rest) < literalLen
         THEN PatchResult("panic", "truncated",
                          "Literal length was more than content available",
                          outBuf, <<>>, reads)
         ELSE PatchLoop(a, Slice(r.rest, literalLen, Len(r.rest)),
                        WrapInt(cursor + literalLen),
                        outBuf \o Slice(r.rest, 0, literalLen), reads)
    ELSE IF instrFirst = 0
    THEN PatchEnd(outBuf, r.rest, reads)
    ELSE \* copy
         LET copyLen == WrapInt(-instrFirst)
             m == ReadVarint(r.rest)
         IN
         IF ~m.ok
         THEN PatchResult("panic", IF m.err = "overflow" THEN "varint" ELSE "truncated",
                          IF m.err = "EOF" THEN "copy instruction truncated, weird" ELSE m.err,
                          outBuf, m.rest, reads)
         ELSE LET copyMove == m.val
                  cursor1  == WrapInt(cursor + copyMove)
                  end      == WrapInt(cursor1 + copyLen)
              IN
              IF cursor1 < 0
              THEN PatchResult("panic", "check", "Copy would start before start of source",
                               outBuf, m.rest, reads)
              ELSE IF cursor1 > Len(a)
              THEN PatchResult("panic", "check", "Copy would start after end of source",
                               outBuf, m.rest, reads)
              ELSE IF end > Len(a)
              THEN PatchResult("panic", "check", "Copy would end after end of source",
                               outBuf, m.rest, reads)
              ELSE IF end < cursor1
              THEN PatchResult("panic", "runtime", "slice bounds out of range",
                               outBuf, m.rest, reads)
              ELSE PatchLoop(a, m.rest, end, outBuf \o Slice(a, cursor1, end),
                             reads \cup (cursor1 .. end - 1))

Patch(a, diff) == PatchLoop(a, diff, 0, <<>>, {})

-----------------------------------------------------------------------------
(* sourceref/sourceref.go *)

SourceRef(n, start, length) == [SourceNumber |-> n, Start |-> start, Length |-> length]

SourceNotFound == SourceRef(-1, 0, 0)
PreviousSegment == SourceRef(-2, 0, 0)
EOFMarker == SourceRef(0, 0, 0)

\* SourceRef.Write
SourceRefWrite(sr) ==
    PutVarint(sr.SourceNumber) \o PutUvarint(sr.Start) \o PutUvarint(sr.Length)

\* ReadSource on the unread part r of a reader: the SourceRef and what is
\* left of r, or the panic
ReadSource(r) ==
    LET n == ReadVarint(r) IN
    IF ~n.ok THEN [ok |-> FALSE, msg |-> "couldn't read source number",
                   sr |-> EOFMarker, rest |-> n.rest]
    ELSE LET st == ReadUvarint(n.rest) IN
    IF ~st.ok THEN [ok |-> FALSE, msg |-> "couldn't read source offset",
                    sr |-> EOFMarker, rest |-> st.rest]
    ELSE LET ln == ReadUvarint(st.rest) IN
    IF ~ln.ok THEN [ok |-> FALSE, msg |-> "couldn't read source length",
                    sr |-> EOFMarker, rest |-> ln.rest]
    ELSE [ok |-> TRUE, msg |-> "", sr |-> SourceRef(n.val, st.val, ln.val), rest |-> ln.rest]

-----------------------------------------------------------------------------
(* dpfile/dpfile.go: checksums *)

\* hash/fnv's New32a on 32 bits, kept as <<high 16 bits, low 16 bits>>:
\* h = (h XOR b) * 16777619 mod 2^32, with 16777619 = 256 * 2^16 + 403
fnvStep(h, b) ==
    LET lo  == Xor(h[2], b)
        lo1 == lo * 403
    IN <<(h[1] * 403 + lo * 256 + lo1 \div 65536) % 65536, lo1 % 65536>>

RECURSIVE fnvWrite(_, _)
fnvWrite(h, text) == IF text = <<>> THEN h ELSE fnvWrite(fnvStep(h, Head(text)), Tail(text))

\* dpchecksum: FNV-1a from the offset basis 2166136261 = 0x811C9DC5
dpchecksum(text) == fnvWrite(<<33052, 40389>>, text)

\* binary.Write(out, binary.BigEndian, checksum)
CksumBytes(c) == <<c[1] \div 256, c[1] % 256, c[2] \div 256, c[2] % 256>>

\* binary.Read(in, binary.BigEndian, &checksum) on four bytes
CksumOfBytes(q) == <<q[1] * 256 + q[2], q[3] * 256 + q[4]>>

-----------------------------------------------------------------------------
(* mwxmlchunk/mwxmlchunk.go: the SegmentReader, segment by segment *)

\* A dump file is its preamble (the bytes before the first <page>), its pages
\* (each with the id that follows its first <id>, and its bytes up to and
\* including </page>) and its trailer (the bytes after the last </page>).
\* The scanner's search for <page>, </page> and <id> is taken as finding
\* these places.
DumpFile(pre, pages, trailer) == [pre |-> pre, pages |-> pages, trailer |-> trailer]

RECURSIVE PagesBytes(_, _)
PagesBytes(pages, n) == IF n = 0 THEN <<>> ELSE PagesBytes(pages, n - 1) \o pages[n].text

FileBytes(f) == f.pre \o PagesBytes(f.pages, Len(f.pages)) \o f.trailer

\* offset just past the n-th </page>
PageEnd(f, n) == Len(f.pre) + Len(PagesBytes(f.pages, n))

StartKey == 0
PastEndKey == MaxInt
BeforeStart == -PastEndKey

\* NewSegmentReader (lastRevOnly, limitToNS and cutMeta off); pos counts the
\* </page> tags the scanner has passed
NewSegmentReader(f, sourceNumber) ==
    [file |-> f, sourceNumber |-> sourceNumber, pos |-> 0, Offs |-> 0,
     nextKey |-> 0, currentKey |-> BeforeStart]

\* the id after the next <id>, as ReadNext's last lines set nextKey
ScanNextKey(f, pos) == IF pos < Len(f.pages) THEN f.pages[pos + 1].key ELSE PastEndKey

\* ReadNext: [s: the reader afterwards, text, key, sr, err]
ReadNext(s) ==
    LET f     == s.file
        all   == FileBytes(f)
        np    == Len(f.pages)
        \* endOffs, -1 when the tag is not found
        endOffs == IF s.nextKey = PastEndKey THEN -1
                   ELSE IF s.nextKey = StartKey
                        THEN (IF s.pos < np THEN PageEnd(f, s.pos) ELSE -1)
                        ELSE (IF s.pos < np THEN PageEnd(f, s.pos + 1) ELSE -1)
        eof   == endOffs = -1
        end   == IF eof THEN Len(all) ELSE endOffs
        pos1  == IF eof THEN np
                 ELSE IF s.nextKey = StartKey THEN s.pos ELSE s.pos + 1
        text  == Slice(all, s.Offs, end)
    IN [s    |-> [s EXCEPT !.currentKey = s.nextKey,
                           !.nextKey = ScanNextKey(f, pos1),
                           !.pos = pos1,
                           !.Offs = end],
        text |-> text,
        key  |-> s.nextKey,
        sr   |-> SourceRef(s.sourceNumber, s.Offs, Len(text)),
        err  |-> IF eof THEN "EOF" ELSE ""]

RECURSIVE ReadToLoop(_, _, _)

\* the body of ReadTo's loop once ReadNext has returned n
ReadToBody(n, key) == IF n.err # "" THEN n ELSE ReadToLoop(n.s, key, n)

\* the loop of ReadTo
ReadToLoop(s, key, r) == IF r.key < key THEN ReadToBody(ReadNext(s), key) ELSE r

\* ReadTo returning the zero SourceRef when the key was not reached
ReadToReturnZero(r, key) ==
    IF r.key = key THEN r ELSE [r EXCEPT !.text = <<>>, !.sr = SourceRef(0, 0, 0)]

\* what ReadTo returns after its loop ended with r
ReadToReturn(r, key) ==
    IF r.key = key THEN r ELSE [r EXCEPT !.text = <<>>, !.sr = SourceNotFound]

\* ReadTo(key) searching the file from its start at every call
ReadToRewound(s, key) ==
    ReadToReturn(ReadToLoop(NewSegmentReader(s.file, s.sourceNumber), key,
                            [s |-> s, text |-> <<>>, key |-> BeforeStart,
                             sr |-> SourceNotFound, err |-> ""]), key)

\* ReadTo(key): [s, text, key (reachedKey), sr, err]
ReadTo(s, key) ==
    ReadToReturn(ReadToLoop(s, key, [s |-> s, text |-> <<>>, key |-> s.currentKey,
                                     sr |-> SourceNotFound, err |-> ""]), key)

-----------------------------------------------------------------------------
(* unnamed/part_002 (package scan) and mwxmlchunk/mwxmlchunk.go: the        *)
(* Scanner and the SegmentReader with its modes, tag by tag                 *)

\* Here the text of a dump is a sequence of tokens, each a tag, a number or a
\* run of other bytes, and offsets count tokens. fill is taken to read the
\* file to its end, so that s.All and s.unread reach to the end of the file.
\* Every call ReadNext makes passes discard = false, and cutMeta is off.
pageTag == "<page>"
closePageTag == "</page>"
nsTag == "<ns>"
idTag == "<id>"
revTag == "<revision>"
revOrClosePageTags == <<revTag, closePageTag>>

NewScanner(f) == [in |-> f, unreadOffs |-> 0, Offs |-> 0]

ScanAll(sc) == Slice(sc.in, sc.Offs, Len(sc.in))
unread(sc) == Slice(sc.in, sc.unreadOffs, Len(sc.in))

\* bytes.Index(s, a) for a tag a
BytesIndex(s, a) ==
    IF \E i \in 1..Len(s) : s[i] = a
    THEN (CHOOSE i \in 1..Len(s) : s[i] = a /\ \A j \in 1..(i - 1) : s[j] # a) - 1
    ELSE -1

consume(sc, length) == [sc EXCEPT !.unreadOffs = @ + length]

Discard(sc) == [sc EXCEPT !.Offs = sc.unreadOffs]

\* ScanTo once bytes.Index has returned i, at the end of the file when i = -1
ScanToAt(sc, i, inclusive) ==
    IF i = -1
    THEN [sc |-> consume(sc, Len(unread(sc))), ret |-> -1]
    ELSE [sc  |-> consume(sc, IF inclusive THEN i + 1 ELSE i),
          ret |-> sc.unreadOffs + (IF inclusive THEN i + 1 ELSE i)]

\* ScanTo(a, inclusive, false): [sc: the scanner afterwards, ret]
ScanTo(sc, a, inclusive) == ScanToAt(sc, BytesIndex(unread(sc), a), inclusive)

RECURSIVE FirstOf(_, _, _, _, _)

\* the body of ScanToAny's loop over aChoices once bytes.Index has returned myI
FirstOfBody(u, aChoices, k, i, a, myI) ==
    IF myI # -1 /\ (i = -1 \/ myI < i)
    THEN FirstOf(u, aChoices, k + 1, myI, aChoices[k])
    ELSE FirstOf(u, aChoices, k + 1, i, a)

\* ScanToAny's loop over aChoices: [i, a]
FirstOf(u, aChoices, k, i, a) ==
    IF k > Len(aChoices) THEN [i |-> i, a |-> a]
    ELSE FirstOfBody(u, aChoices, k, i, a, BytesIndex(u, aChoices[k]))

\* ScanToAny once its loop over aChoices has returned m; tag is "" for nil
ScanToAnyAt(sc, m, inclusive) ==
    IF m.i # -1
    THEN [sc  |-> consume(sc, IF inclusive THEN m.i + 1 ELSE m.i),
          ret |-> sc.unreadOffs + (IF inclusive THEN m.i + 1 ELSE m.i),
          tag |-> m.a]
    ELSE [sc |-> consume(sc, Len(unread(sc))), ret |-> -1, tag |-> ""]

\* ScanToAny(aChoices, inclusive, false): [sc, ret, tag]
ScanToAny(sc, aChoices, inclusive) ==
    ScanToAnyAt(sc, FirstOf(unread(sc), aChoices, 1, -1, ""), inclusive)

\* PeekInt's cheap atoi on the token at the head of s.unread
Atoi(tok) ==
    IF \E n \in 0..MaxInt : ToString(n) = tok
    THEN CHOOSE n \in 0..MaxInt : ToString(n) = tok
    ELSE -1

PeekInt(sc) == IF unread(sc) = <<>> THEN -1 ELSE Atoi(unread(sc)[1])

\* the SourceRef ReadNext returns in lastRevOnly mode
InvalidSource == SourceRef(-3, 0, 0)

\* NewSegmentReader with its modes
NewSegmentReaderTags(f, sourceNumber, lastRevOnly, limitToNS, ns) ==
    [in |-> NewScanner(f), currentSeg |-> <<>>, nextKey |-> 0,
     currentKey |-> BeforeStart, sourceNumber |-> sourceNumber,
     lastRevOnly |-> lastRevOnly, limitToNS |-> limitToNS, ns |-> ns]

\* what ReadNext returns
ReadNextReturn(s, text, sr, err) ==
    [s |-> s, text |-> text, key |-> s.currentKey, sr |-> sr, err |-> err]

\* ReadNext's last lines, once ScanTo(idTag) has returned r
ReadNextKey(s, text, sr, r) ==
    ReadNextReturn([s EXCEPT !.in = r.sc,
                             !.nextKey = IF r.ret = -1 THEN PastEndKey ELSE PeekInt(r.sc)],
                   text, sr, "")

ReadNextId(s, text, sr) == ReadNextKey(s, text, sr, ScanTo(s.in, idTag, TRUE))

RECURSIVE NsLoop(_, _, _)

\* the body of the limitToNS loop with the comparison of the namespace left out
NsBodyUnfiltered(s, text, sr, r) ==
    IF r.ret = -1
    THEN ReadNextReturn([s EXCEPT !.in = r.sc, !.nextKey = PastEndKey], text, sr, "")
    ELSE ReadNextId([s EXCEPT !.in = r.sc], text, sr)

\* the body of the limitToNS loop once ScanTo(nsTag) has returned r
NsBody(s, text, sr, r) ==
    IF r.ret = -1
    THEN ReadNextReturn([s EXCEPT !.in = r.sc, !.nextKey = PastEndKey], text, sr, "")
    ELSE IF PeekInt(r.sc) = s.ns
         THEN ReadNextId([s EXCEPT !.in = r.sc], text, sr)
         ELSE NsLoop([s EXCEPT !.in = Discard(ScanTo(r.sc, closePageTag, TRUE).sc)],
                     text, sr)

\* the limitToNS loop
NsLoop(s, text, sr) == NsBody(s, text, sr, ScanTo(s.in, nsTag, TRUE))

\* ReadNext once the segment is in currentSeg
ReadNextSeg(s, startOffs, eof, seg) ==
    IF eof
    THEN ReadNextReturn([s EXCEPT !.currentKey = s.nextKey, !.nextKey = PastEndKey,
                                  !.currentSeg = seg, !.in = Discard(s.in)],
                        seg,
                        IF s.lastRevOnly THEN InvalidSource
                        ELSE SourceRef(s.sourceNumber, startOffs, Len(seg)),
                        "EOF")
    ELSE IF s.limitToNS
         THEN NsLoop([s EXCEPT !.currentKey = s.nextKey, !.currentSeg = seg,
                               !.in = Discard(s.in)],
                     seg,
                     IF s.lastRevOnly THEN InvalidSource
                     ELSE SourceRef(s.sourceNumber, startOffs, Len(seg)))
         ELSE ReadNextId([s EXCEPT !.currentKey = s.nextKey, !.currentSeg = seg,
                                   !.in = Discard(s.in)],
                         seg,
                         IF s.lastRevOnly THEN InvalidSource
                         ELSE SourceRef(s.sourceNumber, startOffs, Len(seg)))

\* ReadNext from the point where endOffs is known: the bytes of s.in.All up
\* to endOffs, or all of them at the end of the file, are appended to currentSeg
ReadNextEmit(s, startOffs, endOffs) ==
    ReadNextSeg(s, startOffs, endOffs = -1,
                s.currentSeg \o
                Slice(ScanAll(s.in), 0,
                      IF endOffs = -1 THEN Len(ScanAll(s.in)) ELSE endOffs - startOffs))

ReadNextScanned(s, startOffs, r) == ReadNextEmit([s EXCEPT !.in = r.sc], startOffs, r.ret)

RECURSIVE RevLoop(_, _, _)

\* the loop of the lastRevOnly branch: while the tag found is <revision>, what
\* was scanned is discarded and the scan repeated
RevLoop(s, startOffs, r) ==
    IF r.tag = revTag
    THEN RevLoop([s EXCEPT !.in = Discard(r.sc)], r.sc.unreadOffs,
                 ScanToAny(Discard(r.sc), revOrClosePageTags, TRUE))
    ELSE ReadNextScanned(s, startOffs, r)

\* the lastRevOnly branch once the first ScanToAny has returned r: the bytes up
\* to and including the tag found go to currentSeg
ReadNextLast(s, startOffs, r) ==
    IF r.ret = -1 THEN ReadNextScanned(s, startOffs, r)
    ELSE RevLoop([s EXCEPT !.in = r.sc,
                           !.currentSeg = @ \o Slice(ScanAll(r.sc), 0, r.ret - startOffs)],
                 startOffs, r)

\* ReadNext: [s: the reader afterwards, text, key, sr, err]
ReadNextTags(s) ==
    IF s.nextKey = PastEndKey
    THEN ReadNextEmit([s EXCEPT !.currentSeg = <<>>], s.in.Offs, -1)
    ELSE IF s.nextKey = StartKey
         THEN ReadNextScanned([s EXCEPT !.currentSeg = <<>>], s.in.Offs,
                              ScanTo(s.in, pageTag, FALSE))
         ELSE IF s.lastRevOnly
              THEN ReadNextLast([s EXCEPT !.currentSeg = <<>>], s.in.Offs,
                                ScanToAny(s.in, revOrClosePageTags, TRUE))
              ELSE ReadNextScanned([s EXCEPT !.currentSeg = <<>>], s.in.Offs,
                                   ScanTo(s.in, closePageTag, TRUE))

-----------------------------------------------------------------------------
(* unnamed/part_002 (package scan): the Scanner, byte by byte *)

\* Here a stream is a sequence of bytes and the Scanner is its offsets and
\* capacities: s.All is the bytes [Offs, Offs + n) of the stream, with
\* capacity cap; s.unread is the bytes [unreadOffs, Offs + n); bcap is
\* cap(s.backing). The underlying reader has handed out Offs + n bytes.

\* the unread bytes PeekInt wants in the buffer (21 in the source), scaled to
\* the streams of the model
PeekIntLen == 3

\* s.unread, its length and its capacity
BufUnread(s, in) == Slice(in, s.unreadOffs, s.Offs + s.n)
BufUnreadLen(s) == s.Offs + s.n - s.unreadOffs
BufUnreadCap(s) == s.cap - (s.unreadOffs - s.Offs)

\* bytes.Index(u, a) for byte strings
IndexBytes(u, a) ==
    IF \E i \in 0..(Len(u) - Len(a)) : Slice(u, i, i + Len(a)) = a
    THEN CHOOSE i \in 0..(Len(u) - Len(a)) :
            /\ Slice(u, i, i + Len(a)) = a
            /\ \A j \in 0..(i - 1) : Slice(u, j, j + Len(a)) # a
    ELSE -1

\* what s.in.Read(p) can return for len(p) = want with left bytes of the
\* stream not yet read: any number of bytes from 1 to what fits, io.EOF with
\* the last bytes or on the call after them; for an empty p, nothing and no
\* error, or io.EOF at the end of the stream
ReadsOf(want, left) ==
    IF want = 0
    THEN {[c |-> 0, err |-> ""]} \cup (IF left = 0 THEN {[c |-> 0, err |-> "EOF"]} ELSE {})
    ELSE IF left = 0 THEN {[c |-> 0, err |-> "EOF"]}
    ELSE {[c |-> k, err |-> ""] : k \in 1..Min(want, left)}
         \cup (IF left <= want THEN {[c |-> left, err |-> "EOF"]} ELSE {})

\* fill, up to its Read: the buffer is doubled when it is full
fillGrow(s) == IF s.n = s.cap THEN [s EXCEPT !.cap = 2 * s.cap, !.bcap = 2 * s.cap] ELSE s

\* the results Read can have in fill
fillReads(s, in) == ReadsOf(fillGrow(s).cap - s.n, Len(in) - (s.Offs + s.n))

\* fill once Read has returned rd: [s, ret]
fill(s, rd) ==
    [s   |-> [fillGrow(s) EXCEPT !.n = @ + rd.c],
     ret |-> IF rd.err = "EOF" /\ rd.c = 0 THEN -1 ELSE rd.c]

\* consume
BufConsume(s, length) == [s EXCEPT !.unreadOffs = @ + length]

\* Discard: the unread bytes are copied to the start of the backing array
\* when s.All has less than half its capacity, and s.All is cut at its front
\* otherwise
BufDiscard(s) ==
    [s EXCEPT !.cap = IF s.cap < s.bcap \div 2 THEN s.bcap ELSE s.cap - (s.unreadOffs - s.Offs),
              !.n = BufUnreadLen(s),
              !.Offs = s.unreadOffs]

\* NewScanner(r, cap) once the Read of its fill has returned rd
BufNewScanner(cap, rd) ==
    fill([Offs |-> 0, n |-> 0, cap |-> cap, bcap |-> cap, unreadOffs |-> 0], rd).s

\* Discard when discard is set
BufDiscardIf(s, discard) == IF discard THEN BufDiscard(s) ELSE s

\* ScanTo and ScanToAny before their fill: all unread bytes but the last
\* overlap are consumed
BufKeep(s, overlap, discard) ==
    IF BufUnreadLen(s) > overlap
    THEN BufDiscardIf(BufConsume(s, BufUnreadLen(s) - overlap), discard)
    ELSE s

\* ScanTo and ScanToAny at the end of the stream: everything is consumed
BufScanEOF(s, discard) ==
    [s |-> BufDiscardIf(BufConsume(s, BufUnreadLen(s)), discard), ret |-> -1, a |-> <<>>,
     done |-> TRUE]

\* ScanTo and ScanToAny once the pattern a was found at i of s.unread
\* (i = -1: not found, the loop goes on)
BufScanFound(s, i, a, inclusive) ==
    IF i = -1 THEN [s |-> s, ret |-> 0, a |-> <<>>, done |-> FALSE]
    ELSE [s    |-> BufConsume(s, IF inclusive THEN i + Len(a) ELSE i),
          ret  |-> s.unreadOffs + (IF inclusive THEN i + Len(a) ELSE i),
          a    |-> a,
          done |-> TRUE]

RECURSIVE BufFirstOf(_, _, _, _, _)

\* the body of ScanToAny's loop over aChoices once bytes.Index has returned myI
BufFirstOfBody(u, aChoices, k, i, a, myI) ==
    IF myI # -1 /\ (i = -1 \/ myI < i)
    THEN BufFirstOf(u, aChoices, k + 1, myI, aChoices[k])
    ELSE BufFirstOf(u, aChoices, k + 1, i, a)

\* ScanToAny's loop over aChoices: [i, a]
BufFirstOf(u, aChoices, k, i, a) ==
    IF k > Len(aChoices) THEN [i |-> i, a |-> a]
    ELSE BufFirstOfBody(u, aChoices, k, i, a, IndexBytes(u, aChoices[k]))

\* ScanToAny's overlap: the length of its longest pattern less one
RECURSIVE BufOverlap(_, _, _)
BufOverlap(aChoices, k, overlap) ==
    IF k > Len(aChoices) THEN overlap
    ELSE BufOverlap(aChoices, k + 1,
                    IF Len(aChoices[k]) - 1 > overlap THEN Len(aChoices[k]) - 1 ELSE overlap)

\* ScanTo's bytes.Index(s.unread, a) and what follows it: [s, ret, a, done]
BufScanToSearch(s, in, a, inclusive) ==
    BufScanFound(s, IndexBytes(BufUnread(s, in), a), a, inclusive)

\* one round of ScanTo's loop once fill has returned f
BufScanToRound(f, in, a, inclusive, discard) ==
    IF f.ret = -1 THEN BufScanEOF(f.s, discard) ELSE BufScanToSearch(f.s, in, a, inclusive)

\* ScanToAny once its loop over aChoices has returned m
BufScanToAnyAt(s, m, inclusive) == BufScanFound(s, m.i, m.a, inclusive)

\* ScanToAny's search of s.unread and what follows it: [s, ret, a, done]
BufScanToAnySearch(s, in, aChoices, inclusive) ==
    BufScanToAnyAt(s, BufFirstOf(BufUnread(s, in), aChoices, 1, -1, <<>>), inclusive)

\* one round of ScanToAny's loop once fill has returned f
BufScanToAnyRound(f, in, aChoices, inclusive, discard) ==
    IF f.ret = -1 THEN BufScanEOF(f.s, discard)
    ELSE BufScanToAnySearch(f.s, in, aChoices, inclusive)

\* a decimal digit
IsDigit(c) == c >= 48 /\ c <= 57

RECURSIVE BufAtoi(_, _, _)

\* PeekInt's cheap atoi over u from index i on
BufAtoi(u, i, parsed) ==
    IF i >= Len(u) THEN parsed
    ELSE IF ~IsDigit(At(u, i)) \/ i = PeekIntLen THEN (IF i = 0 THEN -1 ELSE parsed)
    ELSE BufAtoi(u, i + 1, WrapInt(WrapInt(parsed * 10) + (At(u, i) - 48)))

\* PeekInt after its fills
BufParse(u) == IF Len(u) = 0 THEN -1 ELSE BufAtoi(u, 0, 0)

-----------------------------------------------------------------------------
(* unnamed/part_001 (package stream): the StreamReaderAt *)

streamReaderAtDiscardChunk == 1000000

\* The reader under the adapter, st: st.bytes is the stream. One Read hands
\* out at most st.chunk bytes; it reports io.EOF together with the last bytes
\* of the stream when st.eofData is set, and on the call after them if not.
UnderN(st, pos, k) == Min(Min(k, st.chunk), Len(st.bytes) - pos)

UnderErr(st, pos, k) ==
    IF Len(st.bytes) - pos = 0 \/ (st.eofData /\ Min(k, st.chunk) >= Len(st.bytes) - pos)
    THEN "EOF" ELSE ""

\* StreamReaderAt.Read with len(p) = k at offset o: [n, data, err, o]
StreamRead(st, o, k) ==
    [n    |-> UnderN(st, o, k),
     data |-> Slice(st.bytes, o, o + UnderN(st, o, k)),
     err  |-> UnderErr(st, o, k),
     o    |-> o + UnderN(st, o, k)]

\* what ReadAt returns, or its panic
StreamReturn(o, data, err, panic) ==
    [o |-> o, n |-> Len(data), data |-> data, err |-> err, panic |-> panic]

RECURSIVE SkipLoop(_, _, _)

\* the body of ReadAt's discard loop once sra.Read has returned r
SkipBody(st, bytesToSkip, r) ==
    IF r.err # "" THEN StreamReturn(r.o, <<>>, "", r.err)
    ELSE SkipLoop(st, r.o, bytesToSkip - r.n)

\* ReadAt's discard loop
SkipLoop(st, o, bytesToSkip) ==
    IF bytesToSkip > 0
    THEN SkipBody(st, bytesToSkip,
                  StreamRead(st, o, Min(bytesToSkip, streamReaderAtDiscardChunk)))
    ELSE StreamReturn(o, <<>>, "", "")

RECURSIVE FillLoop(_, _, _, _, _)

\* the body of ReadAt's read loop once sra.Read has returned r
FillBody(st, toRead, data, r) == FillLoop(st, r.o, toRead, data \o r.data, r.err)

\* ReadAt's read loop
FillLoop(st, o, toRead, data, err) ==
    IF Len(data) < toRead /\ err = ""
    THEN FillBody(st, toRead, data, StreamRead(st, o, toRead - Len(data)))
    ELSE StreamReturn(o, data, err, "")

\* ReadAt once its discard loop has ended with s
StreamReadAtSkipped(st, k, s) ==
    IF s.panic # "" THEN s ELSE FillLoop(st, s.o, k, <<>>, "")

\* ReadAt discarding off bytes, whatever the offset reached
StreamReadAtFromStart(st, o, k, off) ==
    IF off - o < 0 THEN StreamReturn(o, <<>>, "", "tried to skip")
    ELSE StreamReadAtSkipped(st, k, SkipLoop(st, o, off))

\* StreamReaderAt.ReadAt(p, off) with len(p) = k at offset o
StreamReadAt(st, o, k, off) ==
    IF off - o < 0 THEN StreamReturn(o, <<>>, "", "tried to skip")
    ELSE StreamReadAtSkipped(st, k, SkipLoop(st, o, off - o))

NoSraCall == [op |-> "none", k |-> 0, off |-> 0, pre |-> 0, n |-> 0, data |-> <<>>,
              err |-> "", panic |-> ""]

-----------------------------------------------------------------------------
(* dltp.go: Merge *)

RECURSIVE MergeAdvance(_, _, _, _)

\* the body of Merge's loop on one reader once ReadNext has returned n
MergeRead(n, lastKey) == MergeAdvance(n.s, n.key, n.text, lastKey)

\* Merge's loop on one reader: it is read until its key is past lastKey
MergeAdvance(r, key, text, lastKey) ==
    IF key <= lastKey THEN MergeRead(ReadNext(r), lastKey)
    ELSE [r |-> r, key |-> key, text |-> text]

\* Merge's loop for the lowest key, from PastEndKey
RECURSIVE MergeLowest(_, _, _)
MergeLowest(keys, i, lastKey) ==
    IF i > Len(keys) THEN lastKey
    ELSE MergeLowest(keys, i + 1, IF keys[i] < lastKey THEN keys[i] ELSE lastKey)

\* the rightmost reader whose key is lastKey
MergeRightmost(keys, lastKey) ==
    CHOOSE i \in 1..Len(keys) : keys[i] = lastKey /\ \A j \in (i + 1)..Len(keys) : keys[j] # lastKey

\* Merge's last loop: the leftmost reader whose key is lastKey
MergeLeftmost(keys, lastKey) ==
    CHOOSE i \in 1..Len(keys) : keys[i] = lastKey /\ \A j \in 1..(i - 1) : keys[j] # lastKey

\* Merge's locals before its loop
MergeStart(in) ==
    [readers |-> [i \in 1..Len(in) |-> NewSegmentReader(in[i], i - 1)],
     keys    |-> [i \in 1..Len(in) |-> BeforeStart],
     text    |-> [i \in 1..Len(in) |-> <<>>],
     lastKey |-> BeforeStart]

\* one turn of Merge's loop once every reader has been advanced to adv[i]
MergeTurn(adv, n) ==
    [readers |-> [i \in 1..n |-> adv[i].r],
     keys    |-> [i \in 1..n |-> adv[i].key],
     text    |-> [i \in 1..n |-> adv[i].text],
     lastKey |-> MergeLowest([i \in 1..n |-> adv[i].key], 1, PastEndKey)]

\* one turn of Merge's loop: the locals afterwards
MergeLoop(m) ==
    MergeTurn([i \in 1..Len(m.readers) |->
                  MergeAdvance(m.readers[i], m.keys[i], m.text[i], m.lastKey)],
              Len(m.readers))

-----------------------------------------------------------------------------
(* httpfile: HTTPFile, in its two sources.  httpfile/httpfile.go serves one
   reader through the channel newDataWaiting; the other source keeps a list
   of waiters served by the goroutine notify.  Bytes are counted, not held:
   the local file is the number of bytes appended to it. *)

\* the goroutines that call Read and ReadAt
Clients == {1, 2}

\* a client that is in no call
NoHfCall ==
    [pc |-> "idle", kind |-> "", k |-> 0, off |-> 0, e |-> 0, waited |-> FALSE]

\* Open: the HTTPFile as constructed
HfNew ==
    [file |-> 0, availableBytes |-> 0,
     requestedBytes |-> 0, requestedHist |-> {0},
     networkError |-> "", closed |-> FALSE, readOffset |-> 0,
     waiters |-> <<>>, done |-> FALSE, calls |-> 0]

\* io.CopyN(hf.w, hf.net, copySize): the bytes copied
CopyNBytes(net) == Min(copySize, net.left)

\* io.CopyN(hf.w, hf.net, copySize): its error, io.EOF or the network's
CopyNErr(net) ==
    IF net.left >= copySize THEN ""
    ELSE IF net.fail THEN "network" ELSE "EOF"

\* no wait at all
NotAvailableNever(offs, available) == FALSE

\* the test of Read, ReadAt and waitForOffs: offs is past what is available
NotAvailable(offs, available) == offs > available

\* hf.r.Read / hf.r.ReadAt: the bytes the local file yields for k bytes at off
LocalRead(file, off, k) == IF file > off THEN Min(k, file - off) ELSE 0

\* notify: the waiters that progress to available lets go, as clients
Woken(ws, available) ==
    {ws[i].c : i \in {j \in 1..Len(ws) : ws[j].requestedOffs <= available}}

\* notify: the waiters kept on the list after progress to available
RECURSIVE StillWaiting(_, _, _)
StillWaiting(ws, i, available) ==
    IF i > Len(ws) THEN <<>>
    ELSE IF ws[i].requestedOffs <= available THEN StillWaiting(ws, i + 1, available)
    ELSE <<ws[i]>> \o StillWaiting(ws, i + 1, available)

\* a client whose wait is ended by the downloader
LetGo(c) == [cl[c] EXCEPT !.pc = "read"]

-----------------------------------------------------------------------------
(* dpfile/dpfile.go: the writer *)

\* longest reference slice a record may name (1e8 in the source), scaled to
\* the texts of the model
MaxSourceLength == 9

\* a DiffTask as NewWriter makes it: an empty buffer and a token in done
NewDiffTask == [s |-> NewMatchState, source |-> EOFMarker, done |-> 1, seq |-> 0]

RECURSIVE RefLoop(_, _, _, _, _)

\* the body of the loop without its break: every reference is asked
RefBodyAll(ss, i, key, r) ==
    RefLoop([ss EXCEPT ![i] = r.s], i + 1, key, r.text, r.sr)

\* the body of WriteSegment's loop over the references once ReadTo has
\* returned r
RefBody(ss, i, key, r) ==
    IF Len(r.text) > 0
    THEN [srcs |-> [ss EXCEPT ![i] = r.s], aText |-> r.text, source |-> r.sr]
    ELSE RefLoop([ss EXCEPT ![i] = r.s], i + 1, key, r.text, r.sr)

\* the loop of WriteSegment over the references: [srcs, aText, source]
RefLoop(ss, i, key, aText, source) ==
    IF i > Len(ss) THEN [srcs |-> ss, aText |-> aText, source |-> source]
    ELSE RefBody(ss, i, key, ReadTo(ss[i], key))

\* WriteSegment after its loop, with the source kept whatever its length
LimitSourceKept(b, a, big) ==
    [srcs   |-> a.srcs,
     aText  |-> a.aText,
     bText  |-> b.text,
     source |-> a.source,
     eof    |-> b.err = "EOF"]

\* WriteSegment after its loop: the source is dropped when it is too long
LimitSource(b, a, big) ==
    [srcs   |-> a.srcs,
     aText  |-> IF big THEN <<>> ELSE a.aText,
     bText  |-> b.text,
     source |-> IF big THEN SourceNotFound ELSE a.source,
     eof    |-> b.err = "EOF"]

\* WriteSegment once its loop over the references has ended with a
FindSource(ss, b, a) == LimitSource(b, a, a.source.Length > MaxSourceLength)

\* WriteSegment once the new dump's ReadNext has returned b
FindRef(ss, b) ==
    FindSource(ss, b, RefLoop([ss EXCEPT ![1] = b.s], 2, b.key, <<>>, SourceNotFound))

\* WriteSegment up to its wait on the slot: [srcs, aText, bText, source, eof]
FindTexts(ss) == FindRef(ss, ReadNext(ss[1]))

\* the slot WriteSegment uses
SlotOf(w) == w % NumSlots

\* the slot Close drains in its i-th round, without the offset winner
CloseSlotFromZero(w, i) == i % NumSlots

\* the slot Close drains in its i-th round
CloseSlot(w, i) == (w + i) % NumSlots

\* <-t.done, with the token left in the channel
TakeDoneKept(t) == t

\* <-t.done: the token leaves the channel
TakeDone(t) == [t EXCEPT !.done = 0]

\* t.done <- 1, with the token lost
PutDoneLost(t) == t

\* t.done <- 1 at the end of DiffTask.Diff: the token is back in the channel
PutDone(t) == [t EXCEPT !.done = 1]

\* <-t.done can proceed, without looking at the channel
DoneReadyAlways(t) == TRUE

\* <-t.done can proceed
DoneReady(t) == t.done = 1

\* DiffTask.Diff before t.s.Diff(): the source reference and the checksum of
\* the source are written
TaskHead(t) ==
    [t.s EXCEPT !.Out = t.s.Out \o SourceRefWrite(t.source) \o CksumBytes(dpchecksum(t.s.A))]

\* DiffTask.Diff after t.s.Diff() returned with s1, with the checksum taken
\* of B as Diff left it
TaskTailTruncatedB(t, bOrig, s1) ==
    IF s1.panic # "" THEN [t EXCEPT !.s = s1]
    ELSE [t EXCEPT !.s = [s1 EXCEPT !.Out = s1.Out \o CksumBytes(dpchecksum(s1.B))]]

\* DiffTask.Diff after t.s.Diff() returned with s1: the checksum of the text
\* saved in bOrig is written
TaskTail(t, bOrig, s1) ==
    IF s1.panic # "" THEN [t EXCEPT !.s = s1]
    ELSE [t EXCEPT !.s = [s1 EXCEPT !.Out = s1.Out \o CksumBytes(dpchecksum(bOrig))]]

\* DiffTask.Diff up to its send on t.done
TaskDiff(t) == TaskTail(t, t.s.B, Diff(TaskHead(t)))

\* t.s.Out.WriteTo(dpw.out), with the buffer's bytes written twice
WrittenTwice(t) ==
    IF t.s.Out = <<>> THEN <<>>
    ELSE <<[seq |-> t.seq, bytes |-> t.s.Out], [seq |-> t.seq, bytes |-> t.s.Out]>>

\* t.s.Out.WriteTo(dpw.out): what reaches the output
Written(t) == IF t.s.Out = <<>> THEN <<>> ELSE <<[seq |-> t.seq, bytes |-> t.s.Out]>>

RECURSIVE Flatten(_)
Flatten(recs) == IF recs = <<>> THEN <<>> ELSE Head(recs).bytes \o Flatten(Tail(recs))

\* the preamble NewWriter writes, line by line
Preamble(names) == <<"DeltaPacker", "no format URL yet", "no source URL", "">> \o names \o <<"">>

-----------------------------------------------------------------------------
(* dpfile/dpfile.go: the reader *)

\* the lines NewReader takes as names, up to the blank line
RECURSIVE NamesOf(_)
NamesOf(lines) ==
    IF lines = <<>> \/ Head(lines) = "" THEN <<>> ELSE <<Head(lines)>> \o NamesOf(Tail(lines))

\* the bytes of the file names of the model
NameBytes(name) ==
    CASE name = "" -> <<>>
      [] name = "new.xml" -> <<"n", "e", "w", ".", "x", "m", "l">>
      [] name = "ref1.xml" -> <<"r", "e", "f", "1", ".", "x", "m", "l">>
      [] name = "ref2.xml" -> <<"r", "e", "f", "2", ".", "x", "m", "l">>
      [] name = "A-b_9.." -> <<"A", "-", "b", "_", "9", ".", ".">>
      [] name = "../ref1.xml" -> <<".", ".", "/", "r", "e", "f", "1", ".", "x", "m", "l">>
      [] name = "ref 1" -> <<"r", "e", "f", " ", "1">>

\* the bytes of the class [-a-zA-Z0-9_.]
SafeBytes ==
    {"-", "_", "."}
    \cup {"0", "1", "2", "3", "4", "5", "6", "7", "8", "9"}
    \cup {"a", "b", "c", "d", "e", "f", "g", "h", "i", "j", "k", "l", "m",
          "n", "o", "p", "q", "r", "s", "t", "u", "v", "w", "x", "y", "z"}
    \cup {"A", "B", "C", "D", "E", "F", "G", "H", "I", "J", "K", "L", "M",
          "N", "O", "P", "Q", "R", "S", "T", "U", "V", "W", "X", "Y", "Z"}

\* panicOnUnsafeName's pattern ^[-a-zA-Z0-9_.]*$
SafeName(name) == \A i \in 1..Len(NameBytes(name)) : NameBytes(name)[i] \in SafeBytes

\* NewReader taking the end of the file for the blank line after the names
NewReaderUnterminated(p, files) ==
    LET hdr   == p.hdr
        names == IF Len(hdr) > 4 THEN NamesOf(SubSeq(hdr, 5, Len(hdr))) ELSE <<>>
        base  == [in |-> p.body, out |-> <<>>, files |-> files, nsources |-> Len(names),
                  lastSeg |-> <<>>, lastSegNil |-> TRUE, ChangeDump |-> FALSE,
                  nread |-> 0, status |-> "run", kind |-> "", msg |-> ""]
        fail(m) == [base EXCEPT !.status = "panic", !.kind = "preamble", !.msg = m]
    IN IF Len(hdr) < 2 THEN fail("Premature EOF reading line")
       ELSE IF hdr[1] # "DeltaPacker" \/ hdr[2] # "no format URL yet"
       THEN fail("Didn't see the expected format name in the header")
       ELSE IF Len(hdr) < 3 THEN fail("Premature EOF reading line")
       ELSE IF hdr[3] = "" THEN fail("Expected a non-blank source URL line")
       ELSE IF Len(hdr) < 4 THEN fail("Premature EOF reading line")
       ELSE IF hdr[4] # "" THEN fail("Expected a blank line after source URL")
       ELSE IF \E i \in 1..Len(names) : ~SafeName(names[i]) THEN fail("unsafe filename")
       ELSE IF Len(names) < 2 THEN fail("Need at least one source besides the output")
       ELSE base

\* NewReader on the pack file p, the references being files
NewReader(p, files) ==
    LET hdr   == p.hdr
        names == IF Len(hdr) > 4 THEN NamesOf(SubSeq(hdr, 5, Len(hdr))) ELSE <<>>
        base  == [in |-> p.body, out |-> <<>>, files |-> files, nsources |-> Len(names),
                  lastSeg |-> <<>>, lastSegNil |-> TRUE, ChangeDump |-> FALSE,
                  nread |-> 0, status |-> "run", kind |-> "", msg |-> ""]
        fail(m) == [base EXCEPT !.status = "panic", !.kind = "preamble", !.msg = m]
    IN IF Len(hdr) < 2 THEN fail("Premature EOF reading line")
       ELSE IF hdr[1] # "DeltaPacker" \/ hdr[2] # "no format URL yet"
       THEN fail("Didn't see the expected format name in the header")
       ELSE IF Len(hdr) < 3 THEN fail("Premature EOF reading line")
       ELSE IF hdr[3] = "" THEN fail("Expected a non-blank source URL line")
       ELSE IF Len(hdr) < 4 THEN fail("Premature EOF reading line")
       ELSE IF hdr[4] # "" THEN fail("Expected a blank line after source URL")
       ELSE IF \E i \in 1..Len(names) : ~SafeName(names[i]) THEN fail("unsafe filename")
       ELSE IF Len(hdr) < 4 + Len(names) + 1 THEN fail("Premature EOF reading line")
       ELSE IF Len(names) < 2 THEN fail("Need at least one source besides the output")
       ELSE base

\* srcFile.ReadAt(orig, start) on source number n; source 0 is the output
\* file, which holds nothing yet while dpr.out has not been flushed
SourceReadAt(d, n, start, length) ==
    LET bytes == IF n = 0 THEN <<>> ELSE FileBytes(d.files[n]) IN
    IF length = 0 THEN [ok |-> TRUE, data |-> <<>>]
    ELSE IF start + length > Len(bytes) THEN [ok |-> FALSE, data |-> <<>>]
    ELSE [ok |-> TRUE, data |-> Slice(bytes, start, start + length)]

\* a panic of ReadSegment
ReadFail(d, k, m) == [d EXCEPT !.status = "panic", !.kind = k, !.msg = m]

\* the segment is written whether or not it repeats its source
ReadEmitAlways(d, rest, text, write) ==
    [d EXCEPT !.in = Slice(rest, 4, Len(rest)),
              !.out = d.out \o text,
              !.lastSeg = text,
              !.lastSegNil = FALSE,
              !.nread = d.nread + 1]

\* the segment is written, or held back when it repeats its source
ReadEmit(d, rest, text, write) ==
    [d EXCEPT !.in = Slice(rest, 4, Len(rest)),
              !.out = IF write THEN d.out \o text ELSE d.out,
              !.lastSeg = text,
              !.lastSegNil = FALSE,
              !.nread = d.nread + 1]

\* the end of ReadSegment with the comparison of the output checksum left out
ReadVerifyUnchecked(d, orig, sourceCksum, text, rest, cksum, fileCksum) ==
    ReadEmit(d, rest, text, ~d.ChangeDump \/ text # orig \/ d.lastSegNil)

\* the end of ReadSegment: cksum is the checksum of the text made, fileCksum
\* the one read after the diff, sourceCksum the one read before it
ReadVerify(d, orig, sourceCksum, text, rest, cksum, fileCksum) ==
    IF cksum # fileCksum
    THEN ReadFail(d, "checksum",
                  IF dpchecksum(orig) = sourceCksum
                  THEN (IF sourceCksum = <<0, 0>>
                        THEN "checksum mismatch. it's possible you don't have the original file"
                        ELSE "sorry; it looks like source file you have isn't original file")
                  ELSE "checksum mismatch. this looks likely to be a bug in dltp.")
    ELSE ReadEmit(d, rest, text, ~d.ChangeDump \/ text # orig \/ d.lastSegNil)

\* ReadSegment after Patch returned with res, the text being written before
\* its checksum is compared
ReadPatchedWriteFirst(d, orig, sourceCksum, res) ==
    IF res.status # "ok" THEN ReadFail(d, res.kind, res.msg)
    ELSE IF Len(res.rest) < 4 THEN ReadFail(d, "truncated", "couldn't read expected checksum")
    ELSE IF dpchecksum(res.out) # CksumOfBytes(SubSeq(res.rest, 1, 4))
    THEN ReadFail([d EXCEPT !.out = d.out \o res.out], "checksum", "checksum mismatch")
    ELSE ReadVerify(d, orig, sourceCksum, res.out, res.rest, dpchecksum(res.out),
                    CksumOfBytes(SubSeq(res.rest, 1, 4)))

\* ReadSegment after Patch returned with res
ReadPatched(d, orig, sourceCksum, res) ==
    IF res.status # "ok" THEN ReadFail(d, res.kind, res.msg)
    ELSE IF Len(res.rest) < 4 THEN ReadFail(d, "truncated", "couldn't read expected checksum")
    ELSE ReadVerify(d, orig, sourceCksum, res.out, res.rest, dpchecksum(res.out),
                    CksumOfBytes(SubSeq(res.rest, 1, 4)))

\* ReadSegment after the source was read with ra
ReadDiff(d, rest, ra) ==
    IF ~ra.ok THEN ReadFail(d, "source", "EOF")
    ELSE IF Len(rest) < 4 THEN ReadFail(d, "truncated", "couldn't read expected checksum")
    ELSE ReadPatched(d, ra.data, CksumOfBytes(SubSeq(rest, 1, 4)),
                     Patch(ra.data, Slice(rest, 4, Len(rest))))

\* ReadSegment after ReadSource returned the reference source
ReadOrig(d, rest, source) ==
    IF source = EOFMarker
    THEN [d EXCEPT !.in = rest, !.status = "done",
                   !.out = IF d.ChangeDump THEN d.out \o d.lastSeg ELSE d.out]
    ELSE IF source.Length > MaxSourceLength
    THEN ReadFail(d, "source", "input file (segment) using too large a source")
    ELSE IF source = PreviousSegment
    THEN ReadFail(d, "source", "segment chaining not implemented")
    ELSE IF source # SourceNotFound /\ source.SourceNumber >= d.nsources
    THEN ReadFail(d, "source", "too-high source number provided")
    ELSE IF source # SourceNotFound /\ source.SourceNumber < 0
    THEN ReadFail(d, "runtime", "index out of range")
    ELSE ReadDiff(d, rest,
                  IF source = SourceNotFound THEN [ok |-> TRUE, data |-> <<>>]
                  ELSE SourceReadAt(d, source.SourceNumber, source.Start, source.Length))

\* ReadSegment taking a source it could not read for the end of the pack
ReadRefLenient(d, src) ==
    IF ~src.ok THEN [d EXCEPT !.status = "done"] ELSE ReadOrig(d, src.rest, src.sr)

\* ReadSegment after ReadSource returned src
ReadRef(d, src) ==
    IF ~src.ok THEN ReadFail(d, "truncated", src.msg) ELSE ReadOrig(d, src.rest, src.sr)

\* ReadSegment: d afterwards; status "run" (it returned true), "done" (it
\* returned false) or "panic"
ReadSegment(d) == ReadRef(d, ReadSource(d.in))

-----------------------------------------------------------------------------
(* bz2blocks/bzip2.go *)

\* A bzip2 file as the readers meet it: the places of its bit stream where
\* one of the two 48-bit magic numbers stands, in stream order. "block" is
\* the start of a block at bit pos, whose compressed bits end at end and
\* decompress to data; "final" is the end-of-stream magic. "fblock" and
\* "ffinal" are the same two bit patterns standing inside the compressed
\* bits of a block. The entropy decoding, inverse BWT and run-length
\* decoding of a block are taken as yielding data.
BzMark(kind, pos, end, data) == [kind |-> kind, pos |-> pos, end |-> end, data |-> data]

\* the k-th block starts after the 32-bit file header and k - 1 blocks
BlockPos(k) == 32 + 80 * (k - 1)

\* what the k-th block decompresses to
BlockData(k) == IF k % 2 = 1 THEN <<10 * k, 10 * k + 1>> ELSE <<10 * k, 10 * k + 1, 10 * k + 2>>

\* a file of nb blocks, with a magic number inside block fk when fk > 0
RECURSIVE BzMarks(_, _, _, _)
BzMarks(k, nb, fk, fkind) ==
    IF k > nb THEN <<BzMark("final", BlockPos(k), BlockPos(k) + 80, <<>>)>>
    ELSE <<BzMark("block", BlockPos(k), BlockPos(k + 1), BlockData(k))>>
         \o (IF fk = k THEN <<BzMark(fkind, BlockPos(k) + 56, BlockPos(k) + 56, <<>>)>>
             ELSE <<>>)
         \o BzMarks(k + 1, nb, fk, fkind)

\* the magic number at bit pos of f, if there is one
MarkAt(f, pos) ==
    IF \E i \in 1..Len(f) : f[i].pos = pos
    THEN f[CHOOSE i \in 1..Len(f) : f[i].pos = pos]
    ELSE BzMark("none", pos, pos, <<>>)

\* a readerBase whose bitReader stands at bit pos; pending is the output of
\* the block at hand that read has not yet handed out (preRLE, preRLEUsed,
\* tPos, lastByte, byteRepeats and repeats)
NewReaderBase(pos, singleBlock, indexOut) ==
    [pending |-> <<>>, brPos |-> pos, eof |-> FALSE, n |-> 0, blocks |-> <<>>,
     indexOut |-> indexOut, singleBlock |-> singleBlock]

\* the bytes the first loop of read puts in a buffer of k bytes
readTake(r, k) == Min(k, Len(r.pending))

\* readBlock on the block at m
readBlock(r, m) == [r EXCEPT !.pending = m.data, !.brPos = m.end]

RECURSIVE read(_, _, _)

\* read, from the magic number m it found at r.brPos
readMagic(r, f, k, m) ==
    IF m.kind \in {"final", "ffinal"}
    THEN [r |-> [r EXCEPT !.eof = TRUE, !.brPos = @ + 80], data |-> <<>>, err |-> "EOF"]
    ELSE IF m.kind = "block" THEN read(readBlock(r, m), f, k)
    ELSE [r |-> [r EXCEPT !.brPos = @ + 48], data |-> <<>>, err |-> "bzip2 data invalid"]

\* readerBase.read into a buffer of k bytes: [r, data, err]
read(r, f, k) ==
    IF readTake(r, k) > 0 \/ r.singleBlock
    THEN [r    |-> [r EXCEPT !.pending = Slice(@, readTake(r, k), Len(@)),
                             !.n = @ + readTake(r, k)],
          data |-> Slice(r.pending, 0, readTake(r, k)),
          err  |-> ""]
    ELSE readMagic(IF r.indexOut
                   THEN [r EXCEPT !.blocks = Append(@, [InBitPos |-> r.brPos,
                                                        OutBytePos |-> r.n])]
                   ELSE r,
                   f, k, MarkAt(f, r.brPos))

\* reader.Read after setup
ReaderRead(r, f, k) ==
    IF r.eof THEN [r |-> r, data |-> <<>>, err |-> "EOF"] ELSE read(r, f, k)

RECURSIVE CopyLoop(_, _, _, _)

\* io.Copy from a reader after one Read returned rd
CopyBody(rd, f, k, out) ==
    IF rd.err # "" THEN [r |-> rd.r, out |-> out] ELSE CopyLoop(rd.r, f, k, out \o rd.data)

\* io.Copy from a reader, with a buffer of k bytes: [r, out]
CopyLoop(r, f, k, out) == CopyBody(ReaderRead(r, f, k), f, k, out)

\* what sequential decompression yields: NewReader read to its end
Sequential(f) == CopyLoop(NewReaderBase(32, FALSE, FALSE), f, 1, <<>>).out

\* the index Index writes: NewIndexingReader read to its end by Close
IndexOf(f) == CopyLoop(NewReaderBase(32, FALSE, TRUE), f, 1, <<>>).r.blocks

\* NewReaderAt with the index blocks
NewReaderAt(blocks) == [NewReaderBase(0, FALSE, FALSE) EXCEPT !.blocks = blocks]

\* the loop of ReadAt over the index
RECURSIVE FindStart(_, _, _, _)
FindStart(blocks, i, off, startBitPos) ==
    IF i > Len(blocks) THEN startBitPos
    ELSE FindStart(blocks, i + 1, off,
                   IF blocks[i].OutBytePos <= off THEN blocks[i].InBitPos ELSE startBitPos)

RECURSIVE DiscardLoop(_, _, _)

\* the discarding loop of ReadAt after one read returned rd
DiscardBody(rd, f, remaining) ==
    IF rd.err # "" THEN [r |-> rd.r, n |-> Len(rd.data), err |-> rd.err]
    ELSE DiscardLoop(rd.r, f, remaining - Len(rd.data))

\* the discarding loop of ReadAt: [r, n, err]
DiscardLoop(r, f, remaining) ==
    IF remaining > 0 THEN DiscardBody(read(r, f, Min(remaining, 4096)), f, remaining)
    ELSE [r |-> r, n |-> 0, err |-> ""]

\* what ReadAt returns after its last read returned rd
ReadAtReturn(rd) == [r |-> rd.r, n |-> Len(rd.data), data |-> rd.data, err |-> rd.err]

\* ReadAt after its discarding loop ended with dr
ReadAtFill(dr, f, k) ==
    IF dr.err # "" THEN [r |-> dr.r, n |-> dr.n, data |-> <<>>, err |-> dr.err]
    ELSE ReadAtReturn(read(dr.r, f, k))

\* ReadAt after its loop over the index
ReadAtFrom(r, f, k, off, startBitPos, startBytePos) ==
    IF startBitPos = -1 THEN [r |-> r, n |-> 0, data |-> <<>>, err |-> "EOF"]
    ELSE ReadAtFill(DiscardLoop([r EXCEPT !.brPos = startBitPos], f, off - startBytePos),
                    f, k)

\* readerAt.ReadAt(buf, off) with len(buf) = k: [r, n, data, err]
ReadAt(r, f, k, off) == ReadAtFrom(r, f, k, off, FindStart(r.blocks, 1, off, -1), -1)

\* a job as NewParallelReader makes it: header read, a token in ready.
\* running: a goroutine of go j.run() has not ended; step: where the run
\* dispatched last is ("" when it has ended); sent: the tokens that run has
\* put into ready; extra: the earlier runs of the job that have not ended
NewJob ==
    [pending |-> <<>>, brPos |-> 32, eof |-> FALSE, n |-> 0, blocks |-> <<>>,
     indexOut |-> FALSE, singleBlock |-> TRUE,
     startBitPos |-> -1, err |-> "", ready |-> 1, running |-> FALSE, blockNum |-> 0,
     isNewBlock |-> FALSE, step |-> "", sent |-> 0, extra |-> 0]

\* the parallelReader as NewParallelReader makes it; br.idx counts the magic
\* numbers pr.br has found
NewParallelReader ==
    [br |-> [idx |-> 0, Pos |-> 32, err |-> ""], currBitPos |-> 32, blockNum |-> 0,
     n |-> 0, blocks |-> <<>>, err |-> ""]

\* bitReader.ReadToBZBlock: [br, eos]
ReadToBZBlock(br, f) ==
    IF br.idx < Len(f)
    THEN [br  |-> [br EXCEPT !.idx = @ + 1, !.Pos = f[br.idx + 1].pos],
          eos |-> f[br.idx + 1].kind \in {"final", "ffinal"}]
    ELSE [br |-> [br EXCEPT !.Pos = @ + 64, !.err = "unexpected EOF"], eos |-> TRUE]

\* job.run on the magic number m at j.startBitPos: the states it can leave.
\* On the bits after a magic number that does not start a block, readBlock
\* fails or decodes something.
JobRuns(j, m) ==
    IF m.kind = "block"
    THEN {[readBlock(j, m) EXCEPT !.err = "", !.isNewBlock = TRUE, !.ready = 1,
                                  !.running = FALSE]}
    ELSE {[j EXCEPT !.err = "bzip2 data invalid", !.brPos = m.pos + 80,
                    !.isNewBlock = TRUE, !.ready = 1, !.running = FALSE],
          [j EXCEPT !.err = "", !.pending = <<0>>, !.brPos = m.pos + 80,
                    !.isNewBlock = TRUE, !.ready = 1, !.running = FALSE]}

\* parallelReader.Read: the block boundary is noted
NoteBlock(p, j) ==
    IF j.isNewBlock
    THEN [p EXCEPT !.blocks = Append(@, [InBitPos |-> p.currBitPos, OutBytePos |-> p.n])]
    ELSE p

\* parallelReader.Read after j.Read(p): left is len(p) afterwards;
\* [pr, j, data, err, ret: Read returns]
Consumed(p, j, data, left) ==
    IF j.err # "" THEN [pr |-> [p EXCEPT !.err = j.err], j |-> j, data |-> data,
                        err |-> j.err, ret |-> TRUE]
    ELSE IF left = 0 THEN [pr |-> p, j |-> [j EXCEPT !.ready = 1], data |-> data,
                           err |-> "", ret |-> TRUE]
    ELSE [pr |-> [p EXCEPT !.currBitPos = j.brPos], j |-> j, data |-> data,
          err |-> "", ret |-> FALSE]

\* parallelReader.Read once j.Read(p) returned rd
ConsumeRead(p, rd, want) ==
    Consumed([p EXCEPT !.n = @ + Len(rd.data)],
             [rd.r EXCEPT !.err = IF rd.err # "" THEN rd.err ELSE @],
             rd.data, want - Len(rd.data))

\* parallelReader.Read from <-j.ready to the search for the next block
Consume(p, j, f, want) ==
    IF j.startBitPos = p.currBitPos
    THEN ConsumeRead(NoteBlock(p, j), ReaderRead([j EXCEPT !.isNewBlock = FALSE], f, want),
                     want)
    ELSE [pr |-> p, j |-> j, data |-> <<>>, err |-> "", ret |-> FALSE]

\* parallelReader.Read after ReadToBZBlock returned s: [pr, j]
DispatchTo(p, j, s) ==
    [pr |-> [p EXCEPT !.br = s.br, !.blockNum = @ + 1],
     j  |-> IF ~s.eos
            THEN [j EXCEPT !.startBitPos = s.br.Pos, !.blockNum = p.blockNum,
                           !.running = TRUE, !.step = "run", !.sent = 0,
                           !.extra = IF j.running THEN @ + 1 ELSE @]
            ELSE [j EXCEPT !.eof = TRUE, !.startBitPos = s.br.Pos, !.ready = 1]]

\* parallelReader.Read from the search for the next block to the end of
\* the loop's body
Dispatch(p, j, f) == DispatchTo(p, j, ReadToBZBlock(p.br, f))

NoCall == [pc |-> "idle", want |-> 0, got |-> 0]
NoRead == [called |-> FALSE, n |-> 0, err |-> ""]
NoReadAt == [called |-> FALSE, calls |-> 0, off |-> 0, len |-> 0, n |-> 0, data |-> <<>>, err |-> ""]

\* the tag-by-tag SegmentReader's variables while another machine runs
ChunkIdle ==
    /\ chFile = <<>>
    /\ chRdr = NewSegmentReaderTags(<<>>, 0, FALSE, FALSE, 0)
    /\ chOut = <<>>

\* the segments of a hand-made delta pack while another machine runs
ReadIdle == rdSegs = <<>>

\* the StreamReaderAt's variables while another machine runs
SraIdle ==
    /\ sraIn = [bytes |-> <<>>, chunk |-> 1, eofData |-> FALSE]
    /\ sra = [o |-> 0, panic |-> ""]
    /\ sraRes = NoSraCall

\* Merge's variables while another machine runs
MergeIdle ==
    /\ mgIn = <<>>
    /\ mg = [readers |-> <<>>, keys |-> <<>>, text |-> <<>>, lastKey |-> PastEndKey]
    /\ mgOut = <<>>

\* the HTTPFile's variables while another machine runs
HttpIdle ==
    /\ hfImpl = ""
    /\ hfNet = [left |-> 0, fail |-> FALSE]
    /\ hf = HfNew
    /\ dl = [pc |-> "exited", n |-> 0, err |-> ""]
    /\ ntf = "exited"
    /\ cl = [c \in Clients |-> NoHfCall]

\* the Scanner in no call, and before any call has returned
NoScanCall ==
    [pc |-> "idle", a |-> <<>>, aChoices |-> <<>>, inclusive |-> FALSE, discard |-> FALSE,
     pre |-> 0, calls |-> 0]

NoScanRes ==
    [op |-> "", a |-> <<>>, aChoices |-> <<>>, inclusive |-> FALSE, discard |-> FALSE,
     pre |-> 0, ret |-> 0, tag |-> <<>>, post |-> 0, panic |-> FALSE]

\* CutStdinToStdout before it is started
NoCut ==
    [pc |-> "off", sourceNumber |-> 0, nextKey |-> 0, currentKey |-> 0, startOffs |-> 0,
     a |-> <<>>,
     inclusive |-> FALSE, text |-> <<>>, sr |-> EOFMarker, err |-> "", idTagOffs |-> 0]

\* the Scanner's variables while another machine runs
ScanIdle ==
    /\ bsIn = <<>>
    /\ bs = [Offs |-> 0, n |-> 0, cap |-> 0, bcap |-> 0, unreadOffs |-> 0]
    /\ bsCall = NoScanCall
    /\ bsRes = NoScanRes
    /\ cut = NoCut
    /\ cutSegs = <<>>
    /\ cutOut = <<>>

ExtIdle == ChunkIdle /\ ReadIdle /\ SraIdle /\ MergeIdle /\ HttpIdle /\ ScanIdle

\* the bzip2 readers' variables while another machine runs
BzIdle ==
    /\ bzFile = <<>>
    /\ bzMode = "off"
    /\ pr = NewParallelReader
    /\ jobs = [i \in 0..(NumJobs - 1) |-> NewJob]
    /\ prCall = NoCall
    /\ prOut = <<>>
    /\ prRes = NoRead
    /\ rdr = NewReaderAt(<<>>)
    /\ raRes = NoReadAt

-----------------------------------------------------------------------------
(* The differ and the patcher as a state machine: a MatchState is used for  *)
(* some earlier diffs, then Diff and Patch run on one pair of texts; or     *)
(* Patch runs on an arbitrary instruction stream.                           *)

Zeros(n) == [i \in 1..n |-> 0]
OneHot(n, k) == [i \in 1..n |-> IF i = k THEN 1 ELSE 0]
Rep(p, n) == [i \in 1..n |-> p[((i - 1) % Len(p)) + 1]]

TwoHot(n) == [i \in 1..n |-> IF i = 1 \/ i = n THEN 1 ELSE 0]

TextLens == {0, 1, hMinMatch - 1, hMinMatch, hMinMatch + 1, MaxLen}

\* the texts handed to Diff: runs of one byte, runs with one or two bytes
\* changed, and a text of period 3
Texts == UNION { {Zeros(n), Rep(<<0, 1, 1>>, n), TwoHot(n)}
                 \cup {OneHot(n, k) : k \in {1, n \div 2, hMinMatch + 1, n} \cap (1..n)}
                 : n \in TextLens }

RangeOf(q) == {q[i] : i \in 1..Len(q)}

\* the bytes raw instruction streams are made of: the short instructions and
\* the bytes of the largest copy lengths
StreamBytes == (0..3) \cup RangeOf(PutVarint(MinInt)) \cup RangeOf(PutVarint(-MaxInt))

Streams == UNION { [1..n -> StreamBytes] : n \in 0..MaxStream }

\* the references raw instruction streams are applied to
PatchRefs == {<<>>, <<0, 1, 1>>}

\* references of the earlier diffs
PriorRefs == {OneHot(MaxLen, MaxLen \div 2), OneHot(hMinMatch - 1, 1)}

\* the pack machine's variables while the differ alone runs
PackIdle ==
    /\ newDump = DumpFile(<<>>, <<>>, <<>>)
    /\ refDumps = <<>>
    /\ nworkers = 0
    /\ srcs = <<>>
    /\ tasks = <<>>
    /\ taskCh = [q |-> <<>>, closed |-> FALSE]
    /\ wk = <<>>
    /\ winner = 0
    /\ wpc = "off"
    /\ pending = [aText |-> <<>>, bText |-> <<>>, source |-> EOFMarker, eof |-> FALSE]
    /\ closeI = 0
    /\ wout = <<>>
    /\ pack = [hdr |-> <<>>, body |-> <<>>]
    /\ corrupt = [rec |-> 0, field |-> "none", bit |-> 0]
    /\ dpr = [in |-> <<>>, out |-> <<>>, files |-> <<>>, nsources |-> 0,
              lastSeg |-> <<>>, lastSegNil |-> TRUE, ChangeDump |-> FALSE,
              nread |-> 0, status |-> "off", kind |-> "", msg |-> ""]

DiffInit ==
    /\ buzTbl \in BuzTbls
    /\ ExtIdle
    /\ PackIdle
    /\ BzIdle
    /\ ms = NewMatchState
    /\ nprior = 0
    /\ dphase = "idle"
    /\ dA = <<>>
    /\ dB = <<>>
    /\ dstream = <<>>
    /\ dres = PatchResult("none", "", "", <<>>, <<>>, {})

\* an earlier use of the MatchState: Diff(a, a) as the writer's worker runs it
PriorDiff ==
    /\ dphase = "idle"
    /\ nprior < MaxPrior
    /\ \E a \in PriorRefs :
          /\ ms' = [Diff([ms EXCEPT !.A = a, !.B = a, !.Out = <<>>])
                       EXCEPT !.Out = <<>>, !.B = <<>>]
          /\ ms'.panic = ""
    /\ nprior' = nprior + 1
    /\ UNCHANGED <<extVars, buzTbl, dphase, dA, dB, dstream, dres, packVars, bzVars>>

\* Diff on (a, b), then Patch on a and the stream Diff wrote
DoDiff ==
    /\ dphase = "idle"
    /\ \E a \in Texts, b \in Texts :
          /\ ms' = Diff([ms EXCEPT !.A = a, !.B = b, !.Out = <<>>])
          /\ dA' = a
          /\ dB' = b
    /\ dstream' = ms'.Out
    /\ dres' = IF ms'.panic = "" THEN Patch(dA', ms'.Out)
               ELSE PatchResult("none", "", "", <<>>, <<>>, {})
    /\ dphase' = "diffed"
    /\ UNCHANGED <<extVars, buzTbl, nprior, packVars, bzVars>>

\* Patch on a and an arbitrary instruction stream
DoPatch ==
    /\ dphase = "idle"
    /\ nprior = 0
    /\ \E a \in PatchRefs, d \in Streams :
          /\ dA' = a
          /\ dstream' = d
    /\ dres' = Patch(dA', dstream')
    /\ dphase' = "patched"
    /\ UNCHANGED <<extVars, buzTbl, ms, nprior, dB, packVars, bzVars>>

DiffNext ==
    \/ PriorDiff
    \/ DoDiff
    \/ DoPatch

SpecDiff == DiffInit /\ [][DiffNext]_vars

-----------------------------------------------------------------------------
(* The delta-pack writer and reader as a state machine: WriteDiffPack runs   *)
(* WriteSegment until it returns false and then Close, while the            *)
(* doDiffTasks goroutines run the tasks; then the pack file is read back    *)
(* by ReadDiffPack, possibly after one bit of a checksum field was flipped. *)

\* texts of the model's dump files: version 1 is the reference, 2 the new dump
PageText(key, v) == OneHot(hMinMatch + 1, hMinMatch + 1) \o (IF v = 1 THEN <<>> ELSE <<key % 2>>)

MkDump(keys, v) ==
    DumpFile(IF v = 1 THEN <<1>> ELSE <<1, 1>>,
             [i \in 1..Len(keys) |-> [key |-> keys[i], text |-> PageText(keys[i], v)]],
             <<0>>)

\* the page ids of the dumps
KeyLists == {<<>>, <<9>>, <<5, 9>>, <<5, 9, 12>>}

NewDumps == {MkDump(ks, 2) : ks \in KeyLists}

\* WriteDiffPack takes at least one reference
RefLists == {<<MkDump(ks, 1)>> : ks \in KeyLists} \cup {<<MkDump(<<5>>, 1), MkDump(<<5, 9>>, 1)>>}

FileNames == <<"new.xml", "ref1.xml", "ref2.xml">>

NoPending == [aText |-> <<>>, bText |-> <<>>, source |-> EOFMarker, eof |-> FALSE]
NoCorrupt == [rec |-> 0, field |-> "none", bit |-> 0]
NoReader == [in |-> <<>>, out |-> <<>>, files |-> <<>>, nsources |-> 0,
             lastSeg |-> <<>>, lastSegNil |-> TRUE, ChangeDump |-> FALSE,
             nread |-> 0, status |-> "off", kind |-> "", msg |-> ""]

\* the differ's own variables while the pack machine runs
DiffIdle ==
    /\ ms = NewMatchState
    /\ nprior = 0
    /\ dphase = "off"
    /\ dA = <<>>
    /\ dB = <<>>
    /\ dstream = <<>>
    /\ dres = PatchResult("none", "", "", <<>>, <<>>, {})

\* the state NewWriter leaves
PackInit ==
    /\ buzTbl \in BuzTbls
    /\ ExtIdle
    /\ DiffIdle
    /\ BzIdle
    /\ newDump \in NewDumps
    /\ refDumps \in RefLists
    /\ nworkers \in 1..MaxWorkers
    /\ srcs = [i \in 1..(1 + Len(refDumps)) |->
                 NewSegmentReader(IF i = 1 THEN newDump ELSE refDumps[i - 1], i - 1)]
    /\ tasks = [i \in 0..(NumSlots - 1) |-> NewDiffTask]
    /\ taskCh = [q |-> <<>>, closed |-> FALSE]
    /\ wk = [w \in 1..MaxWorkers |-> [st |-> "idle", slot |-> 0]]
    /\ winner = 0
    /\ wpc = "ws"
    /\ pending = NoPending
    /\ closeI = 0
    /\ wout = <<>>
    /\ pack = [hdr |-> Preamble(SubSeq(FileNames, 1, 1 + Len(refDumps))), body |-> <<>>]
    /\ corrupt = NoCorrupt
    /\ dpr = NoReader

\* WriteSegment, from its start to its wait on the slot's done channel
WriteSegmentFind ==
    /\ wpc = "ws"
    /\ \E r \in {FindTexts(srcs)} :
          /\ srcs' = r.srcs
          /\ pending' = [aText |-> r.aText, bText |-> r.bText, source |-> r.source,
                         eof |-> r.eof]
    /\ wpc' = "ws_wait"
    /\ UNCHANGED <<extVars, buzTbl, diffVars, bzVars, newDump, refDumps, nworkers, tasks, taskCh, wk,
                   winner, closeI, wout, pack, corrupt, dpr>>

\* WriteSegment, from <-t.done to its return
WriteSegmentSubmit ==
    /\ wpc = "ws_wait"
    /\ LET i == SlotOf(winner)
           t == tasks[i]
       IN /\ DoneReady(t)
          /\ wout' = wout \o Written(t)
          /\ tasks' = [tasks EXCEPT ![i] =
                         [TakeDone(t) EXCEPT
                                   !.source = pending.source,
                                   !.s = [t.s EXCEPT !.A = pending.aText,
                                                     !.B = pending.bText,
                                                     !.Out = <<>>],
                                   !.seq = winner + 1]]
          /\ taskCh' = [taskCh EXCEPT !.q = Append(taskCh.q, i)]
    /\ winner' = winner + 1
    /\ wpc' = IF pending.eof THEN "close" ELSE "ws"
    /\ pending' = NoPending
    /\ closeI' = 0
    /\ UNCHANGED <<extVars, buzTbl, diffVars, bzVars, newDump, refDumps, nworkers, srcs, wk, pack,
                   corrupt, dpr>>

\* doDiffTasks: a goroutine receives a task from the channel
WorkerTake ==
    /\ wpc \in {"ws", "ws_wait", "close", "closed"}
    /\ taskCh.q # <<>>
    /\ \E w \in 1..nworkers :
          /\ wk[w].st = "idle"
          /\ wk' = [wk EXCEPT ![w] = [st |-> "run", slot |-> Head(taskCh.q)]]
    /\ taskCh' = [taskCh EXCEPT !.q = Tail(taskCh.q)]
    /\ UNCHANGED <<extVars, buzTbl, diffVars, bzVars, newDump, refDumps, nworkers, srcs, tasks, winner,
                   wpc, pending, closeI, wout, pack, corrupt, dpr>>

\* doDiffTasks: the goroutine runs t.Diff() to its end
WorkerDiff ==
    /\ wpc \in {"ws", "ws_wait", "close", "closed"}
    /\ \E w \in 1..nworkers :
          /\ wk[w].st = "run"
          /\ \E i \in {wk[w].slot}, t \in {TaskDiff(tasks[wk[w].slot])} :
                IF t.s.panic # "" \/ t.done = 1
                THEN \* a panic in a goroutine ends the program
                     /\ tasks' = [tasks EXCEPT ![i] = t]
                     /\ wpc' = "panic"
                ELSE /\ tasks' = [tasks EXCEPT ![i] = PutDone(t)]
                     /\ wpc' = wpc
          /\ wk' = [wk EXCEPT ![w] = [st |-> "idle", slot |-> 0]]
    /\ UNCHANGED <<extVars, buzTbl, diffVars, bzVars, newDump, refDumps, nworkers, srcs, taskCh, winner,
                   pending, closeI, wout, pack, corrupt, dpr>>

\* doDiffTasks: the range over the closed, empty channel ends
WorkerExit ==
    /\ wpc = "closed"
    /\ taskCh.closed
    /\ taskCh.q = <<>>
    /\ \E w \in 1..nworkers :
          /\ wk[w].st = "idle"
          /\ wk' = [wk EXCEPT ![w] = [st |-> "exited", slot |-> 0]]
    /\ UNCHANGED <<extVars, buzTbl, diffVars, bzVars, newDump, refDumps, nworkers, srcs, tasks, taskCh,
                   winner, wpc, pending, closeI, wout, pack, corrupt, dpr>>

\* Close: one round of its loop over the slots
CloseDrain ==
    /\ wpc = "close"
    /\ closeI < NumSlots
    /\ LET i == CloseSlot(winner, closeI)
           t == tasks[i]
       IN /\ DoneReady(t)
          /\ wout' = wout \o Written(t)
          /\ tasks' = [tasks EXCEPT ![i] = [TakeDone(t) EXCEPT !.s = [t.s EXCEPT !.Out = <<>>]]]
    /\ closeI' = closeI + 1
    /\ UNCHANGED <<extVars, buzTbl, diffVars, bzVars, newDump, refDumps, nworkers, srcs, taskCh, wk,
                   winner, wpc, pending, pack, corrupt, dpr>>

\* Close: after the loop
CloseFinish ==
    /\ wpc = "close"
    /\ closeI = NumSlots
    /\ taskCh' = [taskCh EXCEPT !.closed = TRUE]
    /\ wout' = Append(wout, [seq |-> 0, bytes |-> SourceRefWrite(EOFMarker)])
    /\ pack' = [pack EXCEPT !.body = Flatten(wout')]
    /\ wpc' = "closed"
    /\ UNCHANGED <<extVars, buzTbl, diffVars, bzVars, newDump, refDumps, nworkers, srcs, tasks, wk,
                   winner, pending, closeI, corrupt, dpr>>

\* WriteDiffPack returns and the program ends, its goroutines with it
WriterExit ==
    /\ wpc = "closed"
    /\ wpc' = "exited"
    /\ wk' = [w \in 1..MaxWorkers |-> [st |-> "exited", slot |-> 0]]
    /\ UNCHANGED <<extVars, buzTbl, diffVars, bzVars, newDump, refDumps, nworkers, srcs, tasks, taskCh,
                   winner, pending, closeI, wout, pack, corrupt, dpr>>

\* offset in the pack body of the rec-th record
RecordStart(rec) == Len(Flatten(SubSeq(wout, 1, rec - 1)))

\* offset in the pack body of a checksum field of the rec-th record
FieldStart(rec, field) ==
    IF field = "ref"
    THEN RecordStart(rec) + (Len(wout[rec].bytes) - Len(ReadSource(wout[rec].bytes).rest))
    ELSE RecordStart(rec) + Len(wout[rec].bytes) - 4

\* bytes with bit number bit of the 4-byte big-endian field at offset start flipped
FlipBit(bytes, start, bit) ==
    LET k == start + (3 - bit \div 8) IN
    [bytes EXCEPT ![k + 1] = Xor(bytes[k + 1], 2^(bit % 8))]

\* the bits that are flipped: the lowest and the highest of each byte
FlipBits == {8 * b + k : b \in 0..3, k \in {0, 7}}

\* one bit of a stored checksum changes in the pack file before it is read
Corrupt ==
    /\ wpc = "exited"
    /\ dpr.status = "off"
    /\ corrupt = NoCorrupt
    /\ \E rec \in 1..(Len(wout) - 1), field \in {"ref", "out"}, bit \in FlipBits :
          /\ corrupt' = [rec |-> rec, field |-> field, bit |-> bit]
          /\ pack' = [pack EXCEPT !.body = FlipBit(pack.body, FieldStart(rec, field), bit)]
    /\ UNCHANGED <<extVars, buzTbl, diffVars, bzVars, newDump, refDumps, nworkers, srcs, tasks, taskCh,
                   wk, winner, wpc, pending, closeI, wout, dpr>>

\* ReadDiffPack: NewReader
ReaderOpen ==
    /\ wpc = "exited"
    /\ dpr.status = "off"
    /\ dpr' = NewReader(pack, refDumps)
    /\ UNCHANGED <<extVars, buzTbl, diffVars, bzVars, newDump, refDumps, nworkers, srcs, tasks, taskCh,
                   wk, winner, wpc, pending, closeI, wout, pack, corrupt>>

\* ReadDiffPack: one call of ReadSegment
ReaderStep ==
    /\ dpr.status = "run"
    /\ dpr' = ReadSegment(dpr)
    /\ UNCHANGED <<extVars, buzTbl, diffVars, bzVars, newDump, refDumps, nworkers, srcs, tasks, taskCh,
                   wk, winner, wpc, pending, closeI, wout, pack, corrupt>>

PackNext ==
    \/ WriteSegmentFind
    \/ WriteSegmentSubmit
    \/ WorkerTake
    \/ WorkerDiff
    \/ WorkerExit
    \/ CloseDrain
    \/ CloseFinish
    \/ WriterExit
    \/ Corrupt
    \/ ReaderOpen
    \/ ReaderStep

SpecPack == PackInit /\ [][PackNext]_vars

-----------------------------------------------------------------------------
(* The writer on dumps that may lack the bytes before their first page or    *)
(* after their last one, or hold a page longer than MaxSourceLength; then    *)
(* the reader on the pack as written.                                        *)

\* a dump with the given preamble, page ids and trailer
WrDump(pre, keys, trailer, v) ==
    DumpFile(pre, [i \in 1..Len(keys) |-> [key |-> keys[i], text |-> PageText(keys[i], v)]],
             trailer)

\* the reference dumps: with or without bytes around their pages
WrRefDumps ==
    {WrDump(pre, ks, tr, 1) : pre \in {<<>>, <<1>>}, ks \in {<<>>, <<5>>, <<5, 9>>},
                              tr \in {<<>>, <<0>>}}

\* a reference dump whose page 5 is longer than MaxSourceLength
WrLongDump(ks) ==
    DumpFile(<<1>>,
             [i \in 1..Len(ks) |->
                 [key |-> ks[i],
                  text |-> IF ks[i] = 5 THEN PageText(5, 1) \o <<0, 0, 0>> ELSE PageText(ks[i], 1)]],
             <<0>>)

WrRefLists ==
    {<<r>> : r \in WrRefDumps}
        \cup {<<WrLongDump(ks)>> : ks \in {<<5>>, <<5, 9>>}}
        \cup {<<WrLongDump(<<5>>), WrDump(<<1>>, <<5, 9>>, <<0>>, 1)>>}
        \cup {<<WrDump(<<>>, <<5>>, <<>>, 1), WrDump(pre, <<5, 9>>, <<0>>, 1)>> :
                 pre \in {<<>>, <<1>>}}

WrNewDumps ==
    {WrDump(pre, ks, tr, 2) : pre \in {<<>>, <<1, 1>>}, ks \in {<<>>, <<5, 9>>},
                              tr \in {<<>>, <<0>>}}
        \cup {WrDump(<<1, 1>>, ks, <<0>>, 2) : ks \in {<<5>>, <<9, 5>>, <<5, 5>>}}

\* the state NewWriter leaves
WrInit ==
    /\ buzTbl = CHOOSE t \in BuzTbls : TRUE
    /\ ExtIdle
    /\ DiffIdle
    /\ BzIdle
    /\ newDump \in WrNewDumps
    /\ refDumps \in WrRefLists
    /\ nworkers \in 1..MaxWorkers
    /\ srcs = [i \in 1..(1 + Len(refDumps)) |->
                 NewSegmentReader(IF i = 1 THEN newDump ELSE refDumps[i - 1], i - 1)]
    /\ tasks = [i \in 0..(NumSlots - 1) |-> NewDiffTask]
    /\ taskCh = [q |-> <<>>, closed |-> FALSE]
    /\ wk = [w \in 1..MaxWorkers |-> [st |-> "idle", slot |-> 0]]
    /\ winner = 0
    /\ wpc = "ws"
    /\ pending = NoPending
    /\ closeI = 0
    /\ wout = <<>>
    /\ pack = [hdr |-> Preamble(SubSeq(FileNames, 1, 1 + Len(refDumps))), body |-> <<>>]
    /\ corrupt = NoCorrupt
    /\ dpr = NoReader

WrNext ==
    \/ WriteSegmentFind
    \/ WriteSegmentSubmit
    \/ WorkerTake
    \/ WorkerDiff
    \/ WorkerExit
    \/ CloseDrain
    \/ CloseFinish
    \/ WriterExit
    \/ ReaderOpen
    \/ ReaderStep

SpecWrite == WrInit /\ [][WrNext]_vars

\* the writer with its goroutines scheduled. A receive or a send that can
\* proceed does proceed, and so do Close's last statements, the exit of a
\* goroutine from its range loop and the return of WriteDiffPack; the first
\* half of WriteSegment and a running Diff contain no blocking operation and
\* come to their end.
SpecWriteFair ==
    /\ WrInit
    /\ [][WrNext]_vars
    /\ WF_vars(WriteSegmentSubmit)
    /\ WF_vars(WorkerTake)
    /\ WF_vars(WorkerExit)
    /\ WF_vars(CloseDrain)
    /\ WF_vars(CloseFinish)
    /\ WF_vars(WriterExit)
    /\ []<>(wpc # "ws")
    /\ []<>(\A w \in 1..nworkers : wk[w].st # "run")

-----------------------------------------------------------------------------
(* The bzip2 readers as a state machine: a file is opened either with       *)
(* NewParallelReader and read with Read calls while the job goroutines      *)
(* run, or with NewReaderAt on the index of the file and read with ReadAt   *)
(* calls.                                                                   *)

\* the files of the model: up to MaxBlocks blocks, and at most one magic
\* number inside the compressed bits of a block
BzFiles ==
    {BzMarks(1, nb, 0, "fblock") : nb \in 0..MaxBlocks}
    \cup {BzMarks(1, MaxBlocks, fk, fkind) : fk \in 1..MaxBlocks, fkind \in {"fblock", "ffinal"}}

\* the state NewParallelReader or NewReaderAt leaves
BzInit ==
    /\ buzTbl = CHOOSE t \in BuzTbls : TRUE
    /\ ExtIdle
    /\ DiffIdle
    /\ PackIdle
    /\ bzFile \in BzFiles
    /\ bzMode \in {"parallel", "readat"}
    /\ pr = NewParallelReader
    /\ jobs = [i \in 0..(NumJobs - 1) |-> NewJob]
    /\ prCall = NoCall
    /\ prOut = <<>>
    /\ prRes = NoRead
    /\ rdr = NewReaderAt(IndexOf(bzFile))
    /\ raRes = NoReadAt

\* a caller calls parallelReader.Read with a buffer of k bytes; Read returns
\* at once when pr.err is set
PrReadCall ==
    /\ bzMode = "parallel"
    /\ prCall.pc = "idle"
    /\ \E k \in 1..MaxBuf :
          IF pr.err # ""
          THEN /\ prRes' = [called |-> TRUE, n |-> 0, err |-> pr.err]
               /\ prCall' = prCall
          ELSE /\ prCall' = [pc |-> "loop", want |-> k, got |-> 0]
               /\ prRes' = prRes
    /\ UNCHANGED <<extVars, buzTbl, diffVars, packVars, bzFile, bzMode, pr, jobs, prOut, rdr, raRes>>

\* parallelReader.Read: one round of its loop, from <-j.ready on
PrIterate ==
    /\ bzMode = "parallel"
    /\ prCall.pc = "loop"
    /\ \E i \in {pr.blockNum % NumJobs} :
          /\ jobs[i].ready = 1
          /\ \E c \in {Consume(pr, [jobs[i] EXCEPT !.ready = 0], bzFile, prCall.want)} :
                /\ prOut' = prOut \o c.data
                /\ IF c.ret
                   THEN /\ pr' = c.pr
                        /\ jobs' = [jobs EXCEPT ![i] = c.j]
                        /\ prCall' = NoCall
                        /\ prRes' = [called |-> TRUE, n |-> prCall.got + Len(c.data),
                                     err |-> c.err]
                   ELSE /\ \E d \in {Dispatch(c.pr, c.j, bzFile)} :
                              /\ pr' = d.pr
                              /\ jobs' = [jobs EXCEPT ![i] = d.j]
                        /\ prCall' = [prCall EXCEPT !.want = @ - Len(c.data),
                                                    !.got = @ + Len(c.data)]
                        /\ prRes' = prRes
    /\ UNCHANGED <<extVars, buzTbl, diffVars, packVars, bzFile, bzMode, rdr, raRes>>

\* a job goroutine runs job.run to its end: the magic number is the one
\* ReadToBZBlock found, and the send finds room in ready
JobRun ==
    /\ bzMode = "parallel"
    /\ \E i \in 0..(NumJobs - 1) :
          /\ jobs[i].running
          /\ jobs[i].step = "run"
          /\ jobs[i].ready = 0
          /\ \E j \in JobRuns(jobs[i], MarkAt(bzFile, jobs[i].startBitPos)) :
                jobs' = [jobs EXCEPT ![i] = [j EXCEPT !.sent = @ + 1, !.step = "",
                                                      !.running = jobs[i].extra > 0]]
    /\ UNCHANGED <<extVars, buzTbl, diffVars, packVars, bzFile, bzMode, pr, prCall, prOut, prRes,
                   rdr, raRes>>

\* a caller calls readerAt.ReadAt(buf, off) with off + len(buf) inside the
\* decompressed file
RaReadAt ==
    /\ bzMode = "readat"
    /\ raRes.calls < MaxCalls
    /\ \E off \in 0..(Len(Sequential(bzFile)) - 1) :
          \E k \in 1..Min(MaxBuf, Len(Sequential(bzFile)) - off) :
             \E a \in {ReadAt(rdr, bzFile, k, off)} :
                /\ rdr' = a.r
                /\ raRes' = [called |-> TRUE, calls |-> raRes.calls + 1, off |-> off,
                             len |-> k, n |-> a.n, data |-> a.data, err |-> a.err]
    /\ UNCHANGED <<extVars, buzTbl, diffVars, packVars, bzFile, bzMode, pr, jobs, prCall, prOut,
                   prRes>>

BzNext ==
    \/ PrReadCall
    \/ PrIterate
    \/ JobRun
    \/ RaReadAt

SpecBz == BzInit /\ [][BzNext]_vars

BzJobStep(i, j) ==
    /\ jobs' = [jobs EXCEPT ![i] = j]
    /\ UNCHANGED <<extVars, buzTbl, diffVars, packVars, bzFile, bzMode, pr, prCall, prOut, prRes,
                   rdr, raRes>>

\* job.run when the ReaderAt fails under ReadBits64(48): the magic number
\* read is 0, j.err is set and a token is sent; run goes on
JobBadMagic ==
    /\ bzMode = "parallel"
    /\ \E i \in 0..(NumJobs - 1) :
          /\ jobs[i].running
          /\ jobs[i].step = "run"
          /\ jobs[i].ready = 0
          /\ BzJobStep(i, [jobs[i] EXCEPT !.err = "incorrect block magic", !.ready = 1,
                                          !.sent = @ + 1, !.step = "magic"])

\* job.run after the failed check of the magic number: readBlock on the
\* failed bitReader, j.err = j.br.Err(), isNewBlock
JobReadFailed ==
    /\ bzMode = "parallel"
    /\ \E i \in 0..(NumJobs - 1) :
          /\ jobs[i].running
          /\ jobs[i].step = "magic"
          /\ BzJobStep(i, [jobs[i] EXCEPT !.err = "unexpected EOF", !.isNewBlock = TRUE,
                                          !.step = "send"])

\* job.run's last statement after the failed check, once ready has room
JobSend ==
    /\ bzMode = "parallel"
    /\ \E i \in 0..(NumJobs - 1) :
          /\ jobs[i].running
          /\ jobs[i].step = "send"
          /\ jobs[i].ready = 0
          /\ BzJobStep(i, [jobs[i] EXCEPT !.ready = 1, !.sent = @ + 1, !.step = "",
                                          !.running = jobs[i].extra > 0])

\* an earlier run of a job that was dispatched again before it ended comes to
\* its last statement, once ready has room
JobExtraSend ==
    /\ bzMode = "parallel"
    /\ \E i \in 0..(NumJobs - 1) :
          /\ jobs[i].extra > 0
          /\ jobs[i].ready = 0
          /\ BzJobStep(i, [jobs[i] EXCEPT !.ready = 1, !.isNewBlock = TRUE, !.extra = @ - 1,
                                          !.running = jobs[i].extra > 1 \/ jobs[i].step # ""])

BzFaultNext ==
    \/ PrReadCall
    \/ PrIterate
    \/ JobRun
    \/ JobBadMagic
    \/ JobReadFailed
    \/ JobSend
    \/ JobExtraSend

\* the state NewParallelReader leaves
BzFaultInit == BzInit /\ bzMode = "parallel"

\* the parallelReader over a ReaderAt whose reads can fail
SpecBzFault == BzFaultInit /\ [][BzFaultNext]_vars

-----------------------------------------------------------------------------
(* The SegmentReader with its modes as a state machine: a dump is read to   *)
(* its end by ReadNext calls, with lastRevOnly and limitToNS on or off.      *)

Namespaces == {0, 1}

\* the dumps: up to MaxPages pages with ids 1, 2, ..., each in a namespace and
\* with up to MaxRevs revisions
ChunkFiles ==
    UNION {{[i \in 1..n |-> [ns |-> f[i][1], nrevs |-> f[i][2], id |-> i]] :
               f \in [1..n -> Namespaces \X (0..MaxRevs)]} : n \in 0..MaxPages}

\* the j-th revision of page p, with its own <id>
RevTokens(p, j) == <<revTag, idTag, ToString(10 * p.id + j), "</id>", "</revision>">>

RECURSIVE RevsTokens(_, _)
RevsTokens(p, n) == IF n = 0 THEN <<>> ELSE RevsTokens(p, n - 1) \o RevTokens(p, n)

\* what precedes the first <revision> of page p
MetaTokens(p) ==
    <<pageTag, "<title>", nsTag, ToString(p.ns), "</ns>", idTag, ToString(p.id), "</id>">>

PageTokens(p) == MetaTokens(p) \o RevsTokens(p, p.nrevs) \o <<closePageTag>>

RECURSIVE PagesTokens(_, _)
PagesTokens(pages, n) ==
    IF n = 0 THEN <<>> ELSE PagesTokens(pages, n - 1) \o PageTokens(pages[n])

HeadTokens == <<"<mediawiki>", "<siteinfo>">>
TailTokens == <<"</mediawiki>">>

DumpTokens(pages) == HeadTokens \o PagesTokens(pages, Len(pages)) \o TailTokens

\* the state NewSegmentReader leaves
ChunkInit ==
    /\ buzTbl = CHOOSE t \in BuzTbls : TRUE
    /\ DiffIdle
    /\ PackIdle
    /\ BzIdle
    /\ ReadIdle
    /\ SraIdle
    /\ MergeIdle
    /\ HttpIdle
    /\ ScanIdle
    /\ chFile \in ChunkFiles
    /\ \E lastRevOnly \in BOOLEAN, limitToNS \in BOOLEAN, ns \in Namespaces :
          chRdr = NewSegmentReaderTags(DumpTokens(chFile), 0, lastRevOnly, limitToNS, ns)
    /\ chOut = <<>>

\* the caller's loop: ReadNext is called until it returns io.EOF
ChunkReadNext ==
    /\ chRdr.in.in # <<>>
    /\ IF chOut = <<>> THEN TRUE ELSE chOut[Len(chOut)].err = ""
    /\ \E r \in {ReadNextTags(chRdr)} :
          /\ chRdr' = r.s
          /\ chOut' = Append(chOut, [text |-> r.text, key |-> r.key, sr |-> r.sr,
                                     err |-> r.err])
    /\ UNCHANGED <<buzTbl, diffVars, packVars, bzVars, readVars, sraVars, mergeVars, httpVars, scanVars, chFile>>

ChunkNext == ChunkReadNext

SpecChunk == ChunkInit /\ [][ChunkNext]_vars

-----------------------------------------------------------------------------
(* The reader on delta packs made by hand: NewReader on a preamble that may *)
(* be malformed or cut short, then ReadSegment calls on a body that may be   *)
(* cut short, with ChangeDump set or not.                                    *)

\* the reference file, source 1
RdRef == DumpFile(<<7>>, <<>>, <<8>>)

\* a copy of one byte of the source at the cursor, and a literal
CopyOne == PutVarint(-1) \o PutVarint(0)
Literal(q) == PutVarint(Len(q)) \o q

\* the records a pack is made of, each by its source and its diff: a segment
\* equal to its source, twice, one that differs from its source, and one
\* with no source
SegChoices ==
    {[sr |-> SourceRef(1, 0, 1), stream |-> CopyOne \o <<0>>],
     [sr |-> SourceRef(1, 1, 1), stream |-> CopyOne \o <<0>>],
     [sr |-> SourceRef(1, 0, 2), stream |-> CopyOne \o Literal(<<9>>) \o <<0>>],
     [sr |-> SourceNotFound, stream |-> Literal(<<7, 7>>) \o <<0>>]}

\* the source text of a record
SegOrig(g) ==
    IF g.sr = SourceNotFound THEN <<>>
    ELSE Slice(FileBytes(RdRef), g.sr.Start, g.sr.Start + g.sr.Length)

\* the segment a record stands for
SegText(g) == Patch(SegOrig(g), g.stream).out

\* a record as DiffTask.Diff lays it out: source, checksum of the source,
\* diff, checksum of the segment
SegRecord(g) ==
    SourceRefWrite(g.sr) \o CksumBytes(dpchecksum(SegOrig(g))) \o g.stream
    \o CksumBytes(dpchecksum(SegText(g)))

RECURSIVE SegRecords(_, _)
SegRecords(segs, n) == IF n = 0 THEN <<>> ELSE SegRecords(segs, n - 1) \o SegRecord(segs[n])

\* the whole body of a pack: the records, then the EOFMarker Close writes
PackBody(segs) == SegRecords(segs, Len(segs)) \o SourceRefWrite(EOFMarker)

SegLists == UNION {[1..n -> SegChoices] : n \in 0..MaxSegs}

\* the first four lines of a preamble, right or wrong
HeaderLines ==
    {<<l1, l2, l3, l4>> : l1 \in {"DeltaPacker", "deltapacker"},
                          l2 \in {"no format URL yet", "http://example.org/format"},
                          l3 \in {"no source URL", ""},
                          l4 \in {"", "x"}}

PreambleNames == {"new.xml", "ref1.xml", "A-b_9..", "../ref1.xml", "ref 1"}

NameLists == UNION {[1..n -> PreambleNames] : n \in 0..MaxNames}

\* the preambles: four lines, names and a blank line, whole or ending early
Preambles ==
    UNION {{SubSeq(h \o ns \o <<"">>, 1, k) : k \in 0..(5 + Len(ns))} :
              h \in HeaderLines, ns \in NameLists}

\* a pack file lies in the working directory with its reference
RdInit ==
    /\ buzTbl = CHOOSE t \in BuzTbls : TRUE
    /\ DiffIdle
    /\ BzIdle
    /\ ChunkIdle
    /\ SraIdle
    /\ MergeIdle
    /\ HttpIdle
    /\ ScanIdle
    /\ newDump = DumpFile(<<>>, <<>>, <<>>)
    /\ refDumps = <<RdRef>>
    /\ nworkers = 0
    /\ srcs = <<>>
    /\ tasks = <<>>
    /\ taskCh = [q |-> <<>>, closed |-> FALSE]
    /\ wk = <<>>
    /\ winner = 0
    /\ wpc = "exited"
    /\ pending = NoPending
    /\ closeI = 0
    /\ wout = <<>>
    /\ corrupt = NoCorrupt
    /\ dpr = NoReader
    /\ \/ /\ rdSegs \in SegLists
          /\ \E k \in 0..Len(PackBody(rdSegs)) :
                pack = [hdr  |-> Preamble(<<"new.xml", "ref1.xml">>),
                        body |-> SubSeq(PackBody(rdSegs), 1, k)]
       \/ /\ rdSegs \in {sl \in SegLists : Len(sl) = 1}
          /\ \E h \in Preambles : pack = [hdr |-> h, body |-> PackBody(rdSegs)]

\* a caller that wants a change dump: NewReader, then dpr.ChangeDump = true
ReaderOpenChanges ==
    /\ wpc = "exited"
    /\ dpr.status = "off"
    /\ dpr' = [NewReader(pack, refDumps) EXCEPT !.ChangeDump = TRUE]
    /\ UNCHANGED <<extVars, buzTbl, diffVars, bzVars, newDump, refDumps, nworkers, srcs, tasks, taskCh,
                   wk, winner, wpc, pending, closeI, wout, pack, corrupt>>

RdNext ==
    \/ ReaderOpen
    \/ ReaderOpenChanges
    \/ ReaderStep

SpecRead == RdInit /\ [][RdNext]_vars

-----------------------------------------------------------------------------
(* The StreamReaderAt as a state machine: a stream is wrapped by            *)
(* NewReaderAt and read with Read and ReadAt calls.                          *)

\* the streams: byte i of a stream is 10 + i
SraStreams == {[i \in 1..n |-> 9 + i] : n \in 0..MaxSraLen}

\* the state NewReaderAt leaves
SraInit ==
    /\ buzTbl = CHOOSE t \in BuzTbls : TRUE
    /\ DiffIdle
    /\ PackIdle
    /\ BzIdle
    /\ ChunkIdle
    /\ ReadIdle
    /\ MergeIdle
    /\ HttpIdle
    /\ ScanIdle
    /\ sraIn \in [bytes : SraStreams, chunk : 1..MaxChunk, eofData : BOOLEAN]
    /\ sra = [o |-> 0, panic |-> ""]
    /\ sraRes = NoSraCall

\* a caller calls Read with a buffer of k bytes
SraRead ==
    /\ sra.panic = ""
    /\ sraIn.bytes # <<>>
    /\ \E k \in 1..MaxBuf :
          \E r \in {StreamRead(sraIn, sra.o, k)} :
             /\ sra' = [sra EXCEPT !.o = r.o]
             /\ sraRes' = [op |-> "Read", k |-> k, off |-> sra.o, pre |-> sra.o, n |-> r.n,
                           data |-> r.data, err |-> r.err, panic |-> ""]
    /\ UNCHANGED <<buzTbl, diffVars, packVars, bzVars, chunkVars, readVars, mergeVars, httpVars, scanVars, sraIn>>

\* a caller calls ReadAt with a buffer of k bytes and an offset
SraReadAt ==
    /\ sra.panic = ""
    /\ sraIn.bytes # <<>>
    /\ \E k \in 1..MaxBuf, off \in 0..Len(sraIn.bytes) :
          \E r \in {StreamReadAt(sraIn, sra.o, k, off)} :
             /\ sra' = [o |-> r.o, panic |-> r.panic]
             /\ sraRes' = [op |-> "ReadAt", k |-> k, off |-> off, pre |-> sra.o, n |-> r.n,
                           data |-> r.data, err |-> r.err, panic |-> r.panic]
    /\ UNCHANGED <<buzTbl, diffVars, packVars, bzVars, chunkVars, readVars, mergeVars, httpVars, scanVars, sraIn>>

SraNext ==
    \/ SraRead
    \/ SraReadAt

SpecSra == SraInit /\ [][SraNext]_vars

-----------------------------------------------------------------------------
(* Merge as a state machine: each step is one turn of its loop. *)

\* the page ids of the dumps merged, in increasing order
MergeKeySeqs == {<<>>, <<5>>, <<9>>, <<12>>, <<5, 9>>, <<5, 12>>, <<9, 12>>, <<5, 9, 12>>}

\* the i-th input: its preamble, pages and trailer all carry i
MergeDump(keys, i) ==
    DumpFile(<<1, i>>,
             [n \in 1..Len(keys) |-> [key |-> keys[n], text |-> <<2, keys[n], i>>]],
             <<0, i>>)

MergeInputs ==
    UNION {{[i \in 1..n |-> MergeDump(ks[i], i)] : ks \in [1..n -> MergeKeySeqs]} :
              n \in 1..MaxInputs}

\* Merge is called
MergeInit ==
    /\ buzTbl = CHOOSE t \in BuzTbls : TRUE
    /\ DiffIdle
    /\ PackIdle
    /\ BzIdle
    /\ ChunkIdle
    /\ ReadIdle
    /\ SraIdle
    /\ HttpIdle
    /\ ScanIdle
    /\ mgIn \in MergeInputs
    /\ mg = MergeStart(mgIn)
    /\ mgOut = <<>>

\* one turn of the loop: the readers are advanced, the lowest key is taken
\* and the text of the leftmost reader at that key is written
MergeStep ==
    /\ mgIn # <<>>
    /\ mg.lastKey # PastEndKey
    /\ \E m \in {MergeLoop(mg)} :
          /\ mg' = m
          /\ mgOut' = Append(mgOut, [i    |-> MergeLeftmost(m.keys, m.lastKey),
                                     key  |-> m.lastKey,
                                     text |-> m.text[MergeLeftmost(m.keys, m.lastKey)]])
    /\ UNCHANGED <<buzTbl, diffVars, packVars, bzVars, chunkVars, readVars, sraVars, httpVars, scanVars, mgIn>>

MergeNext == MergeStep

SpecMerge == MergeInit /\ [][MergeNext]_vars

-----------------------------------------------------------------------------
(* HTTPFile as a state machine: the download goroutine, notify and the
   goroutines that call Read and ReadAt, one step per access to shared state
   or channel operation. *)

SingleReader == hfImpl = "httpfile.go"

WaiterList == hfImpl = "part_003"

\* Open has returned: the download runs, nothing is persisted yet
HttpInit ==
    /\ buzTbl = CHOOSE t \in BuzTbls : TRUE
    /\ DiffIdle
    /\ PackIdle
    /\ BzIdle
    /\ ChunkIdle
    /\ ReadIdle
    /\ SraIdle
    /\ MergeIdle
    /\ ScanIdle
    /\ hfImpl \in {"httpfile.go", "part_003"}
    /\ hfNet \in [left : 0..MaxBody, fail : BOOLEAN]
    /\ hf = HfNew
    /\ dl = [pc |-> "copy", n |-> 0, err |-> ""]
    /\ ntf = IF hfImpl = "part_003" THEN "select" ELSE "exited"
    /\ cl = [c \in Clients |-> NoHfCall]

\* Read or ReadAt is called: the offset the call needs is computed (and, with
\* one reader, stored in requestedBytes)
HfCall(c) ==
    /\ hfImpl # ""
    /\ cl[c].pc = "idle"
    /\ hf.calls < MaxHfCalls
    /\ SingleReader => c = 1
    /\ \E kind \in {"Read", "ReadAt"}, k \in 1..MaxReq, o \in 0..MaxBody :
          \E off \in {IF kind = "Read" THEN hf.readOffset ELSE o} :
              /\ kind = "Read" => o = 0
              /\ cl' = [cl EXCEPT ![c] = [@ EXCEPT !.pc = "check", !.kind = kind, !.k = k,
                                                   !.off = off, !.e = off + k]]
              /\ hf' = IF SingleReader
                       THEN [hf EXCEPT !.calls = @ + 1,
                                       !.requestedBytes = off + k,
                                       !.requestedHist = @ \cup {off + k}]
                       ELSE [hf EXCEPT !.calls = @ + 1]
    /\ UNCHANGED <<buzTbl, diffVars, packVars, bzVars, chunkVars, readVars, sraVars,
                   mergeVars, scanVars, hfImpl, hfNet, dl, ntf>>

\* the test against the available bytes
HfCheck(c) ==
    /\ cl[c].pc = "check"
    /\ cl' = [cl EXCEPT ![c] =
                 IF NotAvailable(cl[c].e, hf.availableBytes)
                 THEN [@ EXCEPT !.pc = IF SingleReader THEN "recv" ELSE "send",
                                !.waited = TRUE]
                 ELSE [@ EXCEPT !.pc = "read"]]
    /\ UNCHANGED <<buzTbl, diffVars, packVars, bzVars, chunkVars, readVars, sraVars,
                   mergeVars, scanVars, hfImpl, hfNet, hf, dl, ntf>>

\* one reader: the goroutine comes to the receive from newDataWaiting and
\* waits there for a sender
HfPark(c) ==
    /\ SingleReader
    /\ cl[c].pc = "recv"
    /\ ~hf.closed
    /\ cl' = [cl EXCEPT ![c] = [@ EXCEPT !.pc = "parked"]]
    /\ UNCHANGED <<buzTbl, diffVars, packVars, bzVars, chunkVars, readVars, sraVars,
                   mergeVars, scanVars, hfImpl, hfNet, hf, dl, ntf>>

\* one reader: the receive from newDataWaiting yields false once it is closed
HfRecvClosed(c) ==
    /\ SingleReader
    /\ cl[c].pc \in {"recv", "parked"}
    /\ hf.closed
    /\ cl' = [cl EXCEPT ![c] = [@ EXCEPT !.pc = "read"]]
    /\ UNCHANGED <<buzTbl, diffVars, packVars, bzVars, chunkVars, readVars, sraVars,
                   mergeVars, scanVars, hfImpl, hfNet, hf, dl, ntf>>

\* waitForOffs sends a ByteWaiter; notify takes it and replies at once or
\* puts it on its list
HfSendWaiter(c) ==
    /\ WaiterList
    /\ cl[c].pc = "send"
    /\ ntf = "select"
    /\ IF hf.done
       THEN /\ cl' = [cl EXCEPT ![c] = [@ EXCEPT !.pc = "read"]]
            /\ hf' = hf
       ELSE IF cl[c].e <= hf.availableBytes
       THEN /\ cl' = [cl EXCEPT ![c] = LetGo(c)]
            /\ hf' = hf
       ELSE /\ cl' = [cl EXCEPT ![c] = [@ EXCEPT !.pc = "wait"]]
            /\ hf' = [hf EXCEPT !.waiters =
                         Append(@, [c |-> c, requestedOffs |-> cl[c].e])]
    /\ UNCHANGED <<buzTbl, diffVars, packVars, bzVars, chunkVars, readVars, sraVars,
                   mergeVars, scanVars, hfImpl, hfNet, dl, ntf>>

\* the read of the local file and the return of Read or ReadAt
HfLocalRead(c) ==
    /\ cl[c].pc = "read"
    /\ \E n \in {LocalRead(hf.file, cl[c].off, cl[c].k)} :
          /\ cl' = [cl EXCEPT ![c] = NoHfCall]
          /\ hf' = IF cl[c].kind = "Read" THEN [hf EXCEPT !.readOffset = @ + n] ELSE hf
    /\ UNCHANGED <<buzTbl, diffVars, packVars, bzVars, chunkVars, readVars, sraVars,
                   mergeVars, scanVars, hfImpl, hfNet, dl, ntf>>

\* Close: notify returns
HfClose(c) ==
    /\ WaiterList
    /\ cl[c].pc = "idle"
    /\ ntf = "select"
    /\ ntf' = "exited"
    /\ UNCHANGED <<buzTbl, diffVars, packVars, bzVars, chunkVars, readVars, sraVars,
                   mergeVars, scanVars, hfImpl, hfNet, hf, dl, cl>>

\* download: io.CopyN appends up to copySize bytes of the body to the file
DlCopy ==
    /\ dl.pc = "copy"
    /\ dl' = [pc |-> "copied", n |-> CopyNBytes(hfNet), err |-> CopyNErr(hfNet)]
    /\ hfNet' = [hfNet EXCEPT !.left = @ - CopyNBytes(hfNet)]
    /\ hf' = [hf EXCEPT !.file = @ + CopyNBytes(hfNet)]
    /\ UNCHANGED <<buzTbl, diffVars, packVars, bzVars, chunkVars, readVars, sraVars,
                   mergeVars, scanVars, hfImpl, ntf, cl>>

\* one reader: after CopyN, either the end (networkError, close) or the
\* count of available bytes
DlAfterCopy ==
    /\ SingleReader
    /\ dl.pc = "copied"
    /\ IF dl.err # ""
       THEN /\ hf' = [hf EXCEPT !.networkError = IF dl.err # "EOF" THEN dl.err ELSE @,
                                !.closed = TRUE]
            /\ dl' = [dl EXCEPT !.pc = "exited"]
       ELSE /\ hf' = [hf EXCEPT !.availableBytes = @ + dl.n]
            /\ dl' = [dl EXCEPT !.pc = "signal"]
    /\ UNCHANGED <<buzTbl, diffVars, packVars, bzVars, chunkVars, readVars, sraVars,
                   mergeVars, scanVars, hfImpl, hfNet, ntf, cl>>

\* one reader: requestedBytes is read without synchronisation and true is
\* sent if the reader is waiting in its receive (the default case of the
\* select is taken otherwise)
DlSignal ==
    /\ SingleReader
    /\ dl.pc = "signal"
    /\ \E r \in hf.requestedHist :
          cl' = IF r <= hf.availableBytes /\ cl[1].pc = "parked"
                THEN [cl EXCEPT ![1] = [@ EXCEPT !.pc = "check"]]
                ELSE cl
    /\ dl' = [dl EXCEPT !.pc = "copy"]
    /\ UNCHANGED <<buzTbl, diffVars, packVars, bzVars, chunkVars, readVars, sraVars,
                   mergeVars, scanVars, hfImpl, hfNet, hf, ntf>>

\* list of waiters: download sends n on progress; notify adds it to the
\* available bytes and lets go the waiters it satisfies
DlProgress ==
    /\ WaiterList
    /\ dl.pc = "copied"
    /\ ntf = "select"
    /\ \E a \in {hf.availableBytes + dl.n} :
          /\ hf' = [hf EXCEPT !.availableBytes = a,
                              !.waiters = StillWaiting(hf.waiters, 1, a)]
          /\ cl' = [c \in Clients |->
                       IF c \in Woken(hf.waiters, a) THEN LetGo(c) ELSE cl[c]]
    /\ dl' = [dl EXCEPT !.pc = IF dl.err # "" THEN "done" ELSE "copy"]
    /\ UNCHANGED <<buzTbl, diffVars, packVars, bzVars, chunkVars, readVars, sraVars,
                   mergeVars, scanVars, hfImpl, hfNet, ntf>>

\* list of waiters: download sets networkError and sends on done; notify
\* closes the reply channel of every waiter
DlDone ==
    /\ WaiterList
    /\ dl.pc = "done"
    /\ ntf = "select"
    /\ hf' = [hf EXCEPT !.networkError = IF dl.err # "EOF" THEN dl.err ELSE @,
                        !.done = TRUE,
                        !.waiters = <<>>]
    /\ cl' = [c \in Clients |->
                 IF c \in {hf.waiters[i].c : i \in 1..Len(hf.waiters)}
                 THEN LetGo(c) ELSE cl[c]]
    /\ dl' = [dl EXCEPT !.pc = "exited"]
    /\ UNCHANGED <<buzTbl, diffVars, packVars, bzVars, chunkVars, readVars, sraVars,
                   mergeVars, scanVars, hfImpl, hfNet, ntf>>

HttpNext ==
    \/ \E c \in Clients : HfCall(c)
    \/ \E c \in Clients : HfCheck(c)
    \/ \E c \in Clients : HfPark(c)
    \/ \E c \in Clients : HfRecvClosed(c)
    \/ \E c \in Clients : HfSendWaiter(c)
    \/ \E c \in Clients : HfLocalRead(c)
    \/ \E c \in Clients : HfClose(c)
    \/ DlCopy
    \/ DlAfterCopy
    \/ DlSignal
    \/ DlProgress
    \/ DlDone

SpecHttp == HttpInit /\ [][HttpNext]_vars

\* the goroutines of the program keep running: a step that waits for nothing
\* outside the program is taken. The network need not deliver (DlCopy), and
\* nobody has to call Read, ReadAt or Close.
SpecHttpFair ==
    /\ HttpInit
    /\ [][HttpNext]_vars
    /\ \A c \in Clients : WF_vars(HfCheck(c))
    /\ \A c \in Clients : WF_vars(HfPark(c))
    /\ \A c \in Clients : WF_vars(HfRecvClosed(c))
    /\ \A c \in Clients : WF_vars(HfSendWaiter(c))
    /\ \A c \in Clients : WF_vars(HfLocalRead(c))
    /\ WF_vars(DlAfterCopy)
    /\ WF_vars(DlSignal)
    /\ WF_vars(DlProgress)
    /\ WF_vars(DlDone)

-----------------------------------------------------------------------------
(* The Scanner over a source that splits its bytes into reads as it likes *)

\* the streams, buffer sizes, patterns and calls of the model
MaxScanLen == 3
MaxScanCalls == 2
ScanBytes == {97, 98, 49}
ScanStreams == UNION {[1..n -> ScanBytes] : n \in 0..MaxScanLen}
ScanCaps == {2, 4}
ScanPatterns == {<<97>>, <<97, 98>>, <<98, 97, 98>>}
ScanChoices == {<<<<98, 97, 98>>, <<97>>>>, <<<<97, 98>>, <<49>>>>, <<<<97>>, <<98>>>>}

\* NewScanner(r, cap) over each stream, with each result of its first Read
ScInit ==
    /\ buzTbl = CHOOSE t \in BuzTbls : TRUE
    /\ DiffIdle
    /\ PackIdle
    /\ BzIdle
    /\ ChunkIdle
    /\ ReadIdle
    /\ SraIdle
    /\ MergeIdle
    /\ HttpIdle
    /\ bsIn \in ScanStreams
    /\ \E cap \in ScanCaps : \E rd \in ReadsOf(cap, Len(bsIn)) : bs = BufNewScanner(cap, rd)
    /\ bsCall = NoScanCall
    /\ bsRes = NoScanRes
    /\ cut = NoCut
    /\ cutSegs = <<>>
    /\ cutOut = <<>>

\* a call returns r = [s, ret, a]
BsReturn(op, c, r) ==
    /\ bs' = r.s
    /\ bsCall' = [NoScanCall EXCEPT !.calls = c.calls]
    /\ bsRes' = [op |-> op, a |-> c.a, aChoices |-> c.aChoices, inclusive |-> c.inclusive,
                 discard |-> c.discard, pre |-> c.pre, ret |-> r.ret, tag |-> r.a,
                 post |-> r.s.unreadOffs, panic |-> FALSE]

\* a call goes round its loop with r = [s, ret, a, done]
BsRound(op, c, r) ==
    IF r.done THEN BsReturn(op, c, r)
    ELSE bs' = r.s /\ bsCall' = [c EXCEPT !.pc = op] /\ bsRes' = bsRes

\* the call c that starts now
BsCallOf(a, aChoices, inclusive, discard) ==
    [pc |-> "idle", a |-> a, aChoices |-> aChoices, inclusive |-> inclusive,
     discard |-> discard, pre |-> bs.unreadOffs, calls |-> bsCall.calls + 1]

BsCanCall == bsCall.pc = "idle" /\ bsCall.calls < MaxScanCalls

BsOthers == UNCHANGED <<buzTbl, diffVars, packVars, bzVars, chunkVars, readVars, sraVars,
                        mergeVars, httpVars, bsIn, cut, cutSegs, cutOut>>

\* ScanTo(a, inclusive, discard), up to its return or its first fill
BsScanTo ==
    /\ BsCanCall
    /\ \E a \in ScanPatterns, inclusive \in BOOLEAN, discard \in BOOLEAN :
           BsRound("ScanTo", BsCallOf(a, <<>>, inclusive, discard),
                   BufScanToSearch(bs, bsIn, a, inclusive))
    /\ BsOthers

\* one round of ScanTo's loop: consume, Discard, fill, search
BsScanToLoop ==
    /\ bsCall.pc = "ScanTo"
    /\ \E kept \in {BufKeep(bs, Len(bsCall.a) - 1, bsCall.discard)} :
           \E rd \in fillReads(kept, bsIn) :
               BsRound("ScanTo", bsCall,
                       BufScanToRound(fill(kept, rd), bsIn, bsCall.a, bsCall.inclusive,
                                      bsCall.discard))
    /\ BsOthers

\* ScanToAny(aChoices, inclusive, discard), up to its return or its first fill
BsScanToAny ==
    /\ BsCanCall
    /\ \E aChoices \in ScanChoices, inclusive \in BOOLEAN, discard \in BOOLEAN :
           BsRound("ScanToAny", BsCallOf(<<>>, aChoices, inclusive, discard),
                   BufScanToAnySearch(bs, bsIn, aChoices, inclusive))
    /\ BsOthers

\* one round of ScanToAny's loop: consume, Discard, fill, search
BsScanToAnyLoop ==
    /\ bsCall.pc = "ScanToAny"
    /\ \E kept \in {BufKeep(bs, BufOverlap(bsCall.aChoices, 1, 0), bsCall.discard)} :
           \E rd \in fillReads(kept, bsIn) :
               BsRound("ScanToAny", bsCall,
                       BufScanToAnyRound(fill(kept, rd), bsIn, bsCall.aChoices,
                                         bsCall.inclusive, bsCall.discard))
    /\ BsOthers

\* PeekInt returns what it parses from s.unread, or panics
BsPeeked(c, s, panic) ==
    /\ bs' = s
    /\ bsCall' = [NoScanCall EXCEPT !.calls = c.calls, !.pc = IF panic THEN "panic" ELSE "idle"]
    /\ bsRes' = [op |-> "PeekInt", a |-> <<>>, aChoices |-> <<>>, inclusive |-> FALSE,
                 discard |-> FALSE, pre |-> c.pre,
                 ret |-> IF panic THEN 0 ELSE BufParse(BufUnread(s, bsIn)), tag |-> <<>>,
                 post |-> s.unreadOffs, panic |-> panic]

\* PeekInt's second fill, once the first has returned f1
BsPeekSecond(c, f1) ==
    \E rd \in fillReads(f1.s, bsIn) :
        \E f2 \in {fill(f1.s, rd)} :
            BsPeeked(c, f2.s, f2.ret # -1 /\ BufUnreadCap(f2.s) < PeekIntLen)

\* PeekInt, with the fills it makes
BsPeekInt ==
    /\ BsCanCall
    /\ \E c \in {BsCallOf(<<>>, <<>>, FALSE, FALSE)} :
           IF BufUnreadLen(bs) < PeekIntLen
           THEN \E rd \in fillReads(bs, bsIn) :
                    \E f1 \in {fill(bs, rd)} :
                        IF f1.ret # -1 /\ BufUnreadCap(f1.s) < PeekIntLen
                        THEN BsPeekSecond(c, f1)
                        ELSE BsPeeked(c, f1.s, FALSE)
           ELSE BsPeeked(c, bs, FALSE)
    /\ BsOthers

\* Discard
BsDiscard ==
    /\ BsCanCall
    /\ bs' = BufDiscard(bs)
    /\ bsCall' = [bsCall EXCEPT !.calls = @ + 1]
    /\ UNCHANGED bsRes
    /\ BsOthers

ScNext ==
    \/ BsScanTo
    \/ BsScanToLoop
    \/ BsScanToAny
    \/ BsScanToAnyLoop
    \/ BsPeekInt
    \/ BsDiscard

SpecScan == ScInit /\ [][ScNext]_vars

\* the caller's goroutine keeps running: a call in its loop goes on
SpecScanFair ==
    /\ ScInit
    /\ [][ScNext]_vars
    /\ WF_vars(BsScanToLoop)
    /\ WF_vars(BsScanToAnyLoop)

-----------------------------------------------------------------------------
(* CutStdinToStdout: the SegmentReader, with no option set, over the        *)
(* byte-level Scanner, read to its end by ReadNext calls                    *)

\* the tags, shortened with the streams of the model: "<p" for <page>, "</"
\* for </page> and "<i" for <id>
pageTagBytes == <<60, 112>>
closePageTagBytes == <<60, 47>>
idTagBytes == <<60, 105>>

\* a page with the digits id after its <id>
CutPage(id) == pageTagBytes \o idTagBytes \o id \o closePageTagBytes

\* the dumps: no page, one page or two, with or without bytes before the
\* first page and after the last
CutPageLists == {<<>>, CutPage(<<49>>), CutPage(<<49>>) \o <<10>> \o CutPage(<<49, 50>>)}
CutStreams == {pre \o pages \o trailer :
                  pre \in {<<>>, <<120>>}, pages \in CutPageLists, trailer \in {<<>>, <<10>>}}
CutCaps == {4, 8}

\* PeekInt's second fill, once the first has returned f1: the Scanners it can
\* leave, and whether it panics
BufPeekSecond(f1, in) ==
    {[s |-> f2.s, panic |-> f2.ret # -1 /\ BufUnreadCap(f2.s) < PeekIntLen] :
        f2 \in {fill(f1.s, rd) : rd \in fillReads(f1.s, in)}}

\* PeekInt up to its parse: the Scanners its fills can leave
BufPeekInt(s, in) ==
    IF BufUnreadLen(s) < PeekIntLen
    THEN UNION {IF f1.ret # -1 /\ BufUnreadCap(f1.s) < PeekIntLen
                THEN BufPeekSecond(f1, in)
                ELSE {[s |-> f1.s, panic |-> FALSE]} :
                   f1 \in {fill(s, rd) : rd \in fillReads(s, in)}}
    ELSE {[s |-> s, panic |-> FALSE]}

\* NewSegmentReader(f, sourceNumber, false, false, ns, false) over each dump,
\* with each result of the first Read of NewScanner: the source number is 0
\* in CutStdinToStdout and the place of the file among the inputs elsewhere
CutInit ==
    /\ buzTbl = CHOOSE t \in BuzTbls : TRUE
    /\ DiffIdle
    /\ PackIdle
    /\ BzIdle
    /\ ChunkIdle
    /\ ReadIdle
    /\ SraIdle
    /\ MergeIdle
    /\ HttpIdle
    /\ bsIn \in CutStreams
    /\ \E cap \in CutCaps : \E rd \in ReadsOf(cap, Len(bsIn)) : bs = BufNewScanner(cap, rd)
    /\ bsCall = NoScanCall
    /\ bsRes = NoScanRes
    /\ \E n \in {0, 1} :
          cut = [NoCut EXCEPT !.pc = "loop", !.sourceNumber = n, !.nextKey = 0,
                              !.currentKey = BeforeStart]
    /\ cutSegs = <<>>
    /\ cutOut = <<>>

CutOthers == UNCHANGED <<buzTbl, diffVars, packVars, bzVars, chunkVars, readVars, sraVars,
                         mergeVars, httpVars, bsIn, bsCall, bsRes>>

\* ReadNext once its first ScanTo has gone round with r = [s, ret, done]:
\* the ScanTo for <id> starts when it has returned
CutIdRound(c, r) ==
    /\ bs' = r.s
    /\ cut' = IF r.done THEN [c EXCEPT !.pc = "peek", !.idTagOffs = r.ret]
              ELSE [c EXCEPT !.pc = "id"]
    /\ UNCHANGED <<cutSegs, cutOut>>

\* the end of the segment without the offset it starts at
CutEndNoStart(startOffs, s, endOffs) == IF endOffs = -1 THEN s.n ELSE endOffs

\* the end of the segment: endOffs, and the end of All when ScanTo found
\* nothing
CutEnd(startOffs, s, endOffs) == IF endOffs = -1 THEN startOffs + s.n ELSE endOffs

\* the SourceRef with the end of the segment for its length
CutSourceRefToEnd(c, end) == SourceRef(c.sourceNumber, c.startOffs, end)

\* the SourceRef ReadNext returns
CutSourceRef(c, end) == SourceRef(c.sourceNumber, c.startOffs, end - c.startOffs)

\* ReadNext from the return of its first ScanTo, with the Scanner s and
\* endOffs, to the first search of the ScanTo for <id>: the segment is
\* All[:endOffs-startOffs] and the Scanner discards it
CutSegment(c, s, endOffs, end) ==
    CutIdRound([c EXCEPT !.currentKey = c.nextKey,
                         !.nextKey = IF endOffs = -1 THEN PastEndKey ELSE c.nextKey,
                         !.err = IF endOffs = -1 THEN "EOF" ELSE "",
                         !.text = Slice(bsIn, s.Offs, s.Offs + (end - c.startOffs)),
                         !.sr = CutSourceRef(c, end),
                         !.a = idTagBytes,
                         !.inclusive = TRUE],
               BufScanToSearch(BufDiscard(s), bsIn, idTagBytes, TRUE))

\* ReadNext once its first ScanTo has gone round with r
CutSegRound(c, r) ==
    IF r.done
    THEN CutSegment(c, r.s, r.ret, CutEnd(c.startOffs, r.s, r.ret))
    ELSE bs' = r.s /\ cut' = [c EXCEPT !.pc = "seg"] /\ UNCHANGED <<cutSegs, cutOut>>

\* ReadNext starts: startOffs is taken and the end of the segment looked for
CutScanFor(c) ==
    IF c.nextKey = PastEndKey
    THEN CutSegment(c, bs, -1, CutEnd(c.startOffs, bs, -1))
    ELSE CutSegRound(c, BufScanToSearch(bs, bsIn, c.a, c.inclusive))

CutReadNext ==
    /\ cut.pc = "loop"
    /\ CutScanFor([cut EXCEPT !.startOffs = bs.Offs,
                              !.a = IF cut.nextKey = StartKey THEN pageTagBytes
                                    ELSE closePageTagBytes,
                              !.inclusive = cut.nextKey # StartKey])
    /\ CutOthers

\* one round of the loop of ReadNext's first ScanTo
CutScanSeg ==
    /\ cut.pc = "seg"
    /\ \E kept \in {BufKeep(bs, Len(cut.a) - 1, FALSE)} :
           \E rd \in fillReads(kept, bsIn) :
               CutSegRound(cut, BufScanToRound(fill(kept, rd), bsIn, cut.a, cut.inclusive,
                                               FALSE))
    /\ CutOthers

\* one round of the loop of the ScanTo for <id>
CutScanId ==
    /\ cut.pc = "id"
    /\ \E kept \in {BufKeep(bs, Len(cut.a) - 1, FALSE)} :
           \E rd \in fillReads(kept, bsIn) :
               CutIdRound(cut, BufScanToRound(fill(kept, rd), bsIn, cut.a, cut.inclusive,
                                              FALSE))
    /\ CutOthers

\* os.Stdout.Write(text), unless the loop has ended before it
CutWrite(out, text, err) == IF err = "EOF" THEN out ELSE out \o text

\* ReadNext returns with nextKey and CutStdinToStdout goes once round its
\* loop: it stops at io.EOF and writes the text otherwise
CutReturn(c, s, nextKey) ==
    /\ bs' = s
    /\ cutSegs' = Append(cutSegs, [text |-> c.text, key |-> c.currentKey, sr |-> c.sr,
                                   err |-> c.err])
    /\ cutOut' = CutWrite(cutOut, c.text, c.err)
    /\ cut' = [c EXCEPT !.nextKey = nextKey, !.pc = IF c.err = "EOF" THEN "done" ELSE "loop"]

\* ReadNext from PeekInt to its return, or to PeekInt's panic
CutPeekInt ==
    /\ cut.pc = "peek"
    /\ \E p \in BufPeekInt(bs, bsIn) :
           IF p.panic
           THEN bs' = p.s /\ cut' = [cut EXCEPT !.pc = "panic"] /\ UNCHANGED <<cutSegs, cutOut>>
           ELSE CutReturn(cut, p.s,
                          IF cut.idTagOffs = -1 THEN PastEndKey
                          ELSE BufParse(BufUnread(p.s, bsIn)))
    /\ CutOthers

CutNext ==
    \/ CutReadNext
    \/ CutScanSeg
    \/ CutScanId
    \/ CutPeekInt

SpecCut == CutInit /\ [][CutNext]_vars

-----------------------------------------------------------------------------
(* Properties of the differ and the patcher *)

\* some window of a passes the sparsity mask, so hash() enters it in h
Indexed(a) ==
    \E i \in hMinMatch .. Len(a) - 1 :
        PassesMask(XorWindow(a, i - hMinMatch + 1, i + 1), hashMask(hashSz, Len(a)))

OneCopy(a) == PutVarint(-Len(a)) \o PutVarint(0) \o <<0>>
OneLiteral(b) == PutVarint(Len(b)) \o b \o <<0>>

\* C2: Patch applied to A and the stream Diff wrote for (A, B) returns B, for
\* every A and B, also on a MatchState that was used for earlier diffs.
C2_DiffRoundTrip ==
    dphase = "diffed" => ms.panic = "" /\ dres.status = "ok" /\ dres.out = dB

\* C9: Patch copies only bytes of A inside [0, len(A)), and every copy that
\* starts or ends outside A is reported by one of Patch's explicit checks
\* (never left to the slice expression a[cursor:cursor+copyLen]).
C9_PatchCursorBounds ==
    dphase # "idle" =>
        /\ dres.reads \subseteq 0 .. Len(dA) - 1
        /\ dres.kind # "runtime"

-----------------------------------------------------------------------------
(* Properties of the delta-pack writer and reader *)

ReaderFinished == dpr.status \in {"done", "panic"}

\* the SourceRef at the head of the i-th record written
RecordSource(i) == ReadSource(wout[i].bytes).sr

C3_WriterOrder ==
    /\ wpc # "panic"
    /\ \A i \in 1..Len(wout) :
          \/ wout[i].seq = i
          \/ wout[i].seq = 0 /\ i = Len(wout) /\ wpc \in {"closed", "exited"}
    /\ wpc \in {"closed", "exited"} => Len(wout) = winner + 1 /\ wout[Len(wout)].seq = 0

\* a task submitted later has finished while an earlier one has not, and
\* records have been written
C3_Witness ==
    /\ Len(wout) >= 1
    /\ \E i, j \in 0..(NumSlots - 1) :
          /\ tasks[j].seq > 0
          /\ tasks[i].seq > tasks[j].seq
          /\ tasks[i].done = 1
          /\ tasks[j].done = 0

\* the pack body a writer without goroutines writes: each segment is diffed
\* in its slot's MatchState as soon as it is found
RECURSIVE SequentialBody(_, _, _)
SequentialBody(ss, states, w) ==
    LET r == FindTexts(ss)
        i == w % NumSlots
        t == TaskDiff([s |-> [states[i] EXCEPT !.A = r.aText, !.B = r.bText, !.Out = <<>>],
                       source |-> r.source, done |-> 0, seq |-> w + 1])
    IN t.s.Out \o (IF r.eof THEN SourceRefWrite(EOFMarker)
                   ELSE SequentialBody(r.srcs, [states EXCEPT ![i] = t.s], w + 1))

ExpectedBody ==
    SequentialBody([i \in 1..(1 + Len(refDumps)) |->
                       NewSegmentReader(IF i = 1 THEN newDump ELSE refDumps[i - 1], i - 1)],
                   [i \in 0..(NumSlots - 1) |-> NewMatchState], 0)

\* C4: the bytes the writer produces depend only on the dumps: for every
\* number of workers and every schedule they are the bytes of the sequential
\* run, and no schedule makes the writer fail.
C4_ParallelDeterminism ==
    /\ wpc # "panic"
    /\ wpc = "closed" => pack.body = ExpectedBody

C4_Witness ==
    /\ wpc = "closed"
    /\ nworkers >= 2
    /\ winner > NumSlots
    /\ pack.body = ExpectedBody

\* C5 as stated: after a flip of any bit of the reference checksum or of the
\* output checksum of a record, ReadSegment does not accept that record: it
\* fails with a checksum mismatch.
C5_ChecksumEnforcement ==
    corrupt # NoCorrupt =>
        /\ dpr.nread < corrupt.rec
        /\ dpr.status # "done"
        /\ dpr.status = "panic" => dpr.kind = "checksum"

\* C5 amended: a flip of any bit of the output checksum of a record makes
\* ReadSegment fail with a checksum mismatch on that record, nothing of it
\* being accepted; a flip of a bit of the reference checksum alone is not
\* detected: the pack is read to its end and the new dump is reproduced.
C5_ChecksumAmended ==
    /\ corrupt.field = "out" =>
          /\ dpr.nread < corrupt.rec
          /\ dpr.status # "done"
          /\ dpr.status = "panic" => dpr.kind = "checksum" /\ dpr.nread = corrupt.rec - 1
    /\ corrupt.field = "ref" =>
          /\ dpr.status # "panic"
          /\ dpr.status = "done" => dpr.out = FileBytes(newDump)

C5_Witness ==
    /\ corrupt.field = "out"
    /\ dpr.status = "panic"
    /\ dpr.kind = "checksum"
    /\ dpr.nread = corrupt.rec - 1

\* C8: with one reference, the record of every page of the new dump carries
\* the SourceRef of the reference's page with the same key when the
\* reference has one, and SourceNotFound when it has none.
C8_ReferenceLookup ==
    wpc = "closed" /\ Len(refDumps) = 1 =>
        \A j \in 1..Len(newDump.pages) :
            LET ref == refDumps[1]
                k   == newDump.pages[j].key
                sr  == RecordSource(j + 1)
            IN IF \E m \in 1..Len(ref.pages) : ref.pages[m].key = k
               THEN \E m \in 1..Len(ref.pages) :
                       /\ ref.pages[m].key = k
                       /\ sr = SourceRef(1, PageEnd(ref, m - 1), Len(ref.pages[m].text))
               ELSE sr = SourceNotFound

-----------------------------------------------------------------------------
(* Properties of the bzip2 readers *)

\* s is a prefix of t
IsPrefix(s, t) == Len(s) <= Len(t) /\ s = SubSeq(t, 1, Len(s))

\* C6: for an indexed file, every offset o inside the decompressed file and
\* every buffer length n with o + n inside it, ReadAt(buf, o) returns
\* without error exactly the n bytes that sequential decompression yields
\* at offset o.
C6_ReadAtSequential ==
    raRes.called =>
        /\ raRes.err = ""
        /\ raRes.data = Slice(Sequential(bzFile), raRes.off, raRes.off + raRes.len)

\* C7: the parallel reader delivers the blocks' bytes in stream order, each
\* block once, whatever order the jobs finish in: what it has delivered is
\* always the beginning of what sequential decompression yields, and all of
\* it once Read has reported the end of the file; no other error occurs.
C7_ParallelOrder ==
    /\ IsPrefix(prOut, Sequential(bzFile))
    /\ pr.err \in {"", "EOF"}
    /\ pr.err = "EOF" => prOut = Sequential(bzFile)

-----------------------------------------------------------------------------
(* Further properties of the differ *)

\* C11: for an empty reference and any target y, Diff does not panic and
\* writes one literal of len(y) bytes carrying y and the terminator (the
\* terminator alone when y is empty), and Patch on the empty reference and
\* that stream returns y; on a fresh MatchState and on a reused one.
C11_EmptyReference ==
    dphase = "diffed" /\ dA = <<>> =>
        /\ ms.panic = ""
        /\ dstream = (IF dB = <<>> THEN <<0>> ELSE OneLiteral(dB))
        /\ dres.status = "ok"
        /\ dres.out = dB

\* the part of dstream that Patch read
PatchConsumed == SubSeq(dstream, 1, Len(dstream) - Len(dres.rest))

\* bytes put after a stream
PatchTails == {<<>>, <<3, 0>>} \cup {<<b>> : b \in StreamBytes}

\* C12: when Patch returns, the last byte it read is the zero terminator,
\* what follows it in the reader is left unread, and with any other bytes
\* after the terminator Patch returns the same output and leaves exactly
\* those bytes unread.
C12_SelfDelimiting ==
    dphase \in {"diffed", "patched"} /\ dres.status = "ok" =>
        /\ PatchConsumed # <<>>
        /\ PatchConsumed[Len(PatchConsumed)] = 0
        /\ dstream = PatchConsumed \o dres.rest
        /\ \A t \in PatchTails :
              /\ Patch(dA, PatchConsumed \o t).status = "ok"
              /\ Patch(dA, PatchConsumed \o t).out = dres.out
              /\ Patch(dA, PatchConsumed \o t).rest = t

\* Patch returned a non-empty output and left bytes unread
\* after the terminator it stopped at
C12_Witness ==
    /\ dphase = "patched"
    /\ dres.status = "ok"
    /\ dres.rest # <<>>
    /\ dres.out # <<>>


-----------------------------------------------------------------------------
(* Properties of the SegmentReader's modes *)

\* the number of times a tag occurs in a text
Count(text, tag) == Cardinality({i \in 1..Len(text) : text[i] = tag})

\* the segments returned for pages: those whose key is a page id
PageSegments == {i \in 1..Len(chOut) : chOut[i].key \notin {StartKey, PastEndKey}}

\* page p cut down to its last revision
LastRevSegment(p) == MetaTokens(p) \o RevTokens(p, p.nrevs) \o <<closePageTag>>

\* C13: in lastRevOnly mode every page segment ReadNext returns holds exactly
\* one <revision>: it is the page's metadata, then the page's last revision,
\* then </page>, with no earlier revision and no bytes of the page twice; the
\* preamble segment holds no <revision>.
C13_LastRevOnly ==
    chRdr.lastRevOnly =>
        /\ \A i \in PageSegments :
              /\ chOut[i].key \in 1..Len(chFile)
              /\ Count(chOut[i].text, revTag) = 1
              /\ Count(chOut[i].text, closePageTag) = 1
              /\ chOut[i].text = LastRevSegment(chFile[chOut[i].key])
        /\ \A i \in 1..Len(chOut) :
              chOut[i].key = StartKey => Count(chOut[i].text, revTag) = 0

\* sub occurs in text
Contains(text, sub) ==
    \E i \in 0..(Len(text) - Len(sub)) : Slice(text, i, i + Len(sub)) = sub

\* <ns>k</ns>
NsElement(k) == <<nsTag, ToString(k), "</ns>">>

\* the reader has returned io.EOF
ChunkFinished == chOut # <<>> /\ chOut[Len(chOut)].err = "EOF"

\* every page of the reader's namespace has been returned under its id, whole
\* or, in lastRevOnly mode, from its first byte on
NsPagesEmitted ==
    \A n \in 1..Len(chFile) :
        chFile[n].ns = chRdr.ns =>
            \E i \in 1..Len(chOut) :
                /\ chOut[i].key = chFile[n].id
                /\ IsPrefix(MetaTokens(chFile[n]), chOut[i].text)
                /\ ~chRdr.lastRevOnly => chOut[i].text = PageTokens(chFile[n])

\* C14: with limitToNS set and namespace k, every segment ReadNext returns
\* after the preamble segment contains <ns>k</ns>, and once the dump is read
\* every page of namespace k has been returned.
C14_NamespaceFilter ==
    chRdr.limitToNS =>
        /\ \A i \in 2..Len(chOut) : Contains(chOut[i].text, NsElement(chRdr.ns))
        /\ ChunkFinished => NsPagesEmitted

\* C14, amended: with limitToNS set and namespace k, every page segment
\* ReadNext returns, that is every segment after the preamble segment other
\* than the trailer returned with io.EOF, contains <ns>k</ns>, and once the
\* dump is read every page of namespace k has been returned.
C14_NamespaceFilterAmended ==
    chRdr.limitToNS =>
        /\ \A i \in 2..Len(chOut) :
              chOut[i].key # PastEndKey => Contains(chOut[i].text, NsElement(chRdr.ns))
        /\ \A i \in 2..Len(chOut) : chOut[i].key = PastEndKey <=> chOut[i].err = "EOF"
        /\ ChunkFinished => NsPagesEmitted

\* a dump with pages of both namespaces read to its end with the filter on
C14_Witness ==
    /\ chRdr.limitToNS
    /\ ChunkFinished
    /\ \E n \in 1..Len(chFile) : chFile[n].ns = chRdr.ns
    /\ \E n \in 1..Len(chFile) : chFile[n].ns # chRdr.ns
    /\ Len(chOut) >= 3

-----------------------------------------------------------------------------
(* Properties of the reader on hand-made packs *)

\* a well-formed preamble: the four fixed lines, then an output name and at
\* least one reference name, each non-empty and safe, then a blank line
ValidPreamble(hdr) ==
    /\ Len(hdr) >= 7
    /\ hdr[1] = "DeltaPacker"
    /\ hdr[2] = "no format URL yet"
    /\ hdr[3] # ""
    /\ hdr[4] = ""
    /\ \E n \in 2..(Len(hdr) - 5) :
          /\ \A i \in 5..(4 + n) : hdr[i] # "" /\ SafeName(hdr[i])
          /\ hdr[5 + n] = ""

RecordsWhole(n) ==
    /\ n <= Len(rdSegs)
    /\ Len(SegRecords(rdSegs, n)) <= Len(pack.body)

\* C19: truncation is never taken for the end. Patch panics on every diff
\* stream cut before its zero terminator; ReadSegment returns true only after
\* a whole record and false only at the EOFMarker of a whole pack, and panics
\* on a pack cut anywhere before that.
C19_TruncationFatal ==
    /\ \A i \in 1..Len(rdSegs) : \A k \in 0..(Len(rdSegs[i].stream) - 1) :
          Patch(SegOrig(rdSegs[i]), SubSeq(rdSegs[i].stream, 1, k)).status = "panic"
    /\ dpr.status = "done" => pack.body = PackBody(rdSegs)
    /\ dpr.status = "run" => RecordsWhole(dpr.nread)
    /\ dpr.nread > 0 => RecordsWhole(dpr.nread)

\* ReadSegment has panicked on a pack cut after its first record
C19_Witness ==
    /\ dpr.status = "panic"
    /\ dpr.kind = "truncated"
    /\ dpr.nread >= 1
    /\ Len(pack.body) < Len(PackBody(rdSegs))

-----------------------------------------------------------------------------
(* Properties of the StreamReaderAt *)

-----------------------------------------------------------------------------
(* Properties of Merge *)

\* Merge's loop has ended
MergeFinished == mgIn # <<>> /\ mg.lastKey = PastEndKey

\* the page keys of a dump
MergeKeysOf(f) == {f.pages[n].key : n \in 1..Len(f.pages)}

\* the page keys that occur in any input
MergeAllKeys == UNION {MergeKeysOf(mgIn[i]) : i \in 1..Len(mgIn)}

\* the writes of pages, by their place in the output
MergePageWrites == {n \in 1..Len(mgOut) : mgOut[n].key \notin {StartKey, PastEndKey}}

\* the leftmost input that contains key k
MergeLeftmostWith(k) ==
    CHOOSE i \in 1..Len(mgIn) :
        k \in MergeKeysOf(mgIn[i]) /\ \A j \in 1..(i - 1) : k \notin MergeKeysOf(mgIn[j])

\* the page of dump f under key k
MergePageOf(f, k) == f.pages[CHOOSE n \in 1..Len(f.pages) : f.pages[n].key = k].text

\* the segment a dump yields under StartKey: what precedes its first page,
\* the whole file when it has no page
PreambleSegment(f) == IF f.pages = <<>> THEN FileBytes(f) ELSE f.pre

\* the segment a dump yields under PastEndKey: what follows its last page
TrailerSegment(f) == IF f.pages = <<>> THEN <<>> ELSE f.trailer

\* C18: when Merge has ended on inputs whose page keys are increasing, every
\* page key of any input has been written exactly once, the page writes are in
\* increasing key order, each page written is the one of the leftmost input
\* that contains its key, and the preamble segment and the trailer segment
\* have each been written once, first and last, both from the leftmost input.
C18_MergePrecedence ==
    MergeFinished =>
        /\ \A k \in MergeAllKeys :
              Cardinality({n \in MergePageWrites : mgOut[n].key = k}) = 1
        /\ \A n \in MergePageWrites : mgOut[n].key \in MergeAllKeys
        /\ \A n, m \in MergePageWrites : n < m => mgOut[n].key < mgOut[m].key
        /\ \A n \in MergePageWrites :
              /\ mgOut[n].i = MergeLeftmostWith(mgOut[n].key)
              /\ mgOut[n].text = MergePageOf(mgIn[mgOut[n].i], mgOut[n].key)
        /\ {n \in 1..Len(mgOut) : mgOut[n].key = StartKey} = {1}
        /\ mgOut[1].i = 1
        /\ mgOut[1].text = PreambleSegment(mgIn[1])
        /\ {n \in 1..Len(mgOut) : mgOut[n].key = PastEndKey} = {Len(mgOut)}
        /\ mgOut[Len(mgOut)].i = 1
        /\ mgOut[Len(mgOut)].text = TrailerSegment(mgIn[1])

\* Merge has ended on three inputs: one key is in the two leftmost, another
\* only in the rightmost, and a page of each of the three has been written
C18_Witness ==
    /\ MergeFinished
    /\ Len(mgIn) = 3
    /\ MergeKeysOf(mgIn[1]) \cap MergeKeysOf(mgIn[2]) # {}
    /\ MergeKeysOf(mgIn[3]) \ (MergeKeysOf(mgIn[1]) \cup MergeKeysOf(mgIn[2])) # {}
    /\ \A i \in 1..3 : \E n \in MergePageWrites : mgOut[n].i = i

-----------------------------------------------------------------------------
(* Properties of HTTPFile *)

\* the download has ended: CopyN has returned the end of the body or a
\* network error
DownloadEnded == dl.err # ""

\* C20: a Read or ReadAt that needs the bytes up to offset e is at its read
\* of the local file only if at least e bytes have been appended to the file
\* or the download has ended.
C20_ReadWaits ==
    \A c \in Clients :
        cl[c].pc = "read" => (hf.file >= cl[c].e \/ DownloadEnded)

\* a call that had to wait is at its read of the local file while the
\* download still runs, and another call is still waiting for more
C20_Witness ==
    \E c, d \in Clients :
        /\ cl[c].pc = "read"
        /\ cl[c].waited
        /\ ~DownloadEnded
        /\ hf.file >= cl[c].e
        /\ cl[d].pc = "wait"

-----------------------------------------------------------------------------
(* Properties of the writer's source references *)

\* the records among the writes: all but the end marker Close writes
WrittenRecords == {i \in 1..Len(wout) : wout[i].seq # 0}

\* the writes that are an encoded EOFMarker, or a record that starts with one
MarkerWrites == {i \in 1..Len(wout) : RecordSource(i) = EOFMarker}

\* Close has written the end marker
WriterClosed == wpc \in {"closed", "exited"}

C22_SourceLengthCap ==
    /\ \A i \in 1..Len(wout) : RecordSource(i).Length <= MaxSourceLength
    /\ dpr.msg # "input file (segment) using too large a source"

\* the reader has gone through a whole pack in which the record of page 5
\* carries SourceNotFound, the page 5 of the first reference being longer
\* than MaxSourceLength
C22_Witness ==
    /\ dpr.status = "done"
    /\ Len(refDumps[1].pages) >= 1
    /\ refDumps[1].pages[1].key = 5
    /\ Len(refDumps[1].pages[1].text) > MaxSourceLength
    /\ Len(newDump.pages) >= 1
    /\ newDump.pages[1].key = 5
    /\ RecordSource(2) = SourceNotFound


-----------------------------------------------------------------------------
(* The block index *)

RECURSIVE BlockEntries(_, _, _)

\* one entry for each block of f from mark i on, in stream order: the bit
\* position of the block's magic and the decompressed bytes before it
BlockEntries(f, i, n) ==
    IF i > Len(f) THEN <<>>
    ELSE IF f[i].kind = "block"
    THEN <<[InBitPos |-> f[i].pos, OutBytePos |-> n]>>
         \o BlockEntries(f, i + 1, n + Len(f[i].data))
    ELSE BlockEntries(f, i + 1, n)

\* C23: the index an indexing reader writes holds exactly one entry per
\* compressed block, in stream order, with the bit position of the block's
\* magic and the number of decompressed bytes before the block; the
\* sequential indexing reader (Index) and the parallel indexing reader, once
\* it has read to the end of the file, record the same entries.
C23_IndexContent ==
    pr.err = "EOF" =>
        /\ pr.blocks = BlockEntries(bzFile, 1, 0)
        /\ IndexOf(bzFile) = BlockEntries(bzFile, 1, 0)
        /\ IndexOf(bzFile) = pr.blocks

-----------------------------------------------------------------------------
(* Close *)

\* every doDiffTasks goroutine has left its loop, or ended with the program
AllWorkersExited == \A w \in 1..nworkers : wk[w].st = "exited"

\* C24: once Close has returned, the record of every submitted segment has
\* been written exactly once, in submission order, the encoded EOFMarker
\* follows the last record and nothing is written after it, every slot's
\* buffer is drained, and the task channel is closed and empty with no
\* goroutine holding a task, so that every diff goroutine exits; and Close
\* does return.
C24_CloseCompletes ==
    /\ [](WriterClosed =>
            /\ Len(wout) = winner + 1
            /\ \A i \in 1..winner : wout[i].seq = i
            /\ wout[winner + 1] = [seq |-> 0, bytes |-> SourceRefWrite(EOFMarker)]
            /\ \A i \in 0..(NumSlots - 1) : tasks[i].s.Out = <<>> /\ tasks[i].done = 0
            /\ taskCh.closed
            /\ taskCh.q = <<>>
            /\ \A w \in 1..nworkers : wk[w].st \in {"idle", "exited"})
    /\ [][WriterClosed => wout' = wout]_vars
    /\ <>WriterClosed
    /\ (WriterClosed ~> AllWorkersExited)

\* Close has returned after more segments than there are slots, and one of
\* two goroutines has left its loop while the other has not yet
C24_Witness ==
    /\ wpc = "closed"
    /\ winner > NumSlots
    /\ nworkers = 2
    /\ wk[1].st = "exited"
    /\ wk[2].st = "idle"
    /\ Len(wout) = winner + 1

-----------------------------------------------------------------------------
(* Ownership of a task *)

\* the goroutines that hold the task of slot i: they received it from the
\* channel and have not yet sent on its done channel
Holders(i) == {w \in 1..nworkers : wk[w].st = "run" /\ wk[w].slot = i}

\* how often the task of slot i is on the task channel
OnChannel(i) == Cardinality({k \in 1..Len(taskCh.q) : taskCh.q[k] = i})

\* the task of slot i is between WriteSegment's send on the task channel and
\* the goroutine's send on its done channel
InFlight(i) == OnChannel(i) + Cardinality(Holders(i)) > 0

\* C25: a task is never on the task channel twice at once nor held by two
\* goroutines; while it is in flight its done channel is empty, so the send
\* on done always finds room and the panic "same difftask being used twice!"
\* does not occur; and between WriteSegment's send of the task and the
\* goroutine's send on done the task is changed by no step other than the
\* Diff of the goroutine that holds it.
C25_TaskOwnership ==
    /\ [](/\ wpc # "panic"
          /\ \A i \in 0..(NumSlots - 1) :
                /\ OnChannel(i) + Cardinality(Holders(i)) <= 1
                /\ tasks[i].done \in {0, 1}
                /\ InFlight(i) => tasks[i].done = 0 /\ tasks[i].s.panic = "")
    /\ [][\A i \in 0..(NumSlots - 1) :
             InFlight(i) /\ tasks'[i] # tasks[i] =>
                 \E w \in Holders(i) :
                    /\ wk'[w].st = "idle"
                    /\ tasks'[i] = [TaskDiff(tasks[i]) EXCEPT !.done = 1]]_vars

\* WriteSegment waits for the token of a slot it has used before, whose task
\* a goroutine holds, while the other slot's task is on the channel
C25_Witness ==
    /\ wpc = "ws_wait"
    /\ winner >= NumSlots
    /\ Holders(SlotOf(winner)) # {}
    /\ tasks[SlotOf(winner)].done = 0
    /\ \E i \in 0..(NumSlots - 1) : i # SlotOf(winner) /\ OnChannel(i) = 1

-----------------------------------------------------------------------------
(* Verification before the write *)

\* the 4-byte field that ends the bytes a step consumed: the stored output
\* checksum of the record it read
StoredOut(n) == CksumOfBytes(SubSeq(dpr.in, n - 3, n))

\* C26: a call of ReadSegment that returns true has written at most the
\* segment it rebuilt, and the checksum computed of that segment equals the
\* output checksum stored at the end of the record; a call that panics, on a
\* checksum mismatch or otherwise, has written nothing; and a record whose
\* stored output checksum was changed is never accepted.
C26_VerifyBeforeWrite ==
    [][dpr.status = "run" =>
          /\ dpr'.status = "run" =>
                /\ dpr'.out \in {dpr.out, dpr.out \o dpr'.lastSeg}
                /\ Len(dpr.in) - Len(dpr'.in) >= 4
                /\ dpchecksum(dpr'.lastSeg) = StoredOut(Len(dpr.in) - Len(dpr'.in))
          /\ dpr'.status = "panic" => dpr'.out = dpr.out
          /\ corrupt.field = "out" /\ dpr.nread = corrupt.rec - 1 =>
                dpr'.status = "panic" /\ dpr'.kind = "checksum" /\ dpr'.out = dpr.out]_vars

\* after one record was accepted and written, ReadSegment has panicked on the
\* mismatch of the next record's output checksum, and the output is still
\* the first segment alone
C26_Witness ==
    /\ corrupt.field = "out"
    /\ corrupt.rec = 2
    /\ dpr.status = "panic"
    /\ dpr.kind = "checksum"
    /\ dpr.nread = 1
    /\ dpr.out = dpr.lastSeg
    /\ dpr.out # <<>>

-----------------------------------------------------------------------------
(* The order of the references to one source *)

\* the i-th write is a record that names a slice of a reference
NamesSource(i) == wout[i].seq # 0 /\ RecordSource(i) # SourceNotFound

\* the reference named by the i-th write, as the stream the reader wraps in a
\* StreamReaderAt
SourceStream(i) ==
    [bytes |-> FileBytes(refDumps[RecordSource(i).SourceNumber]), chunk |-> MaxChunk,
     eofData |-> FALSE]

RECURSIVE BackwardSeek(_, _)

\* the replay once the ReadAt for the i-th write has returned r
BackwardRead(i, o, r) ==
    \/ r.panic = "tried to skip"
    \/ r.panic = "" /\ BackwardSeek(i + 1, [o EXCEPT ![RecordSource(i).SourceNumber] = r.o])

\* ReadSegment's calls srcFile.ReadAt(orig, source.Start) replayed for the
\* writes from the i-th on, o[n] being the offset of the StreamReaderAt of
\* reference n: some call asks for an offset before the one reached
BackwardSeek(i, o) ==
    IF i > Len(wout) THEN FALSE
    ELSE IF ~NamesSource(i) THEN BackwardSeek(i + 1, o)
    ELSE BackwardRead(i, o, StreamReadAt(SourceStream(i), o[RecordSource(i).SourceNumber],
                                         RecordSource(i).Length, RecordSource(i).Start))

\* C27: in what the writer has written, the SourceRefs that name the same
\* reference have increasing ranges that do not overlap (each starts at or
\* after the end of the one before), and every range lies in its reference;
\* so a reader that reaches the references through forward-only
\* StreamReaderAts never asks for an offset before the one reached.
C27_ForwardReferences ==
    /\ \A i, j \in 1..Len(wout) :
          /\ i < j
          /\ NamesSource(i)
          /\ NamesSource(j)
          /\ RecordSource(i).SourceNumber = RecordSource(j).SourceNumber
          => RecordSource(j).Start >= RecordSource(i).Start + RecordSource(i).Length
    /\ \A i \in 1..Len(wout) :
          NamesSource(i) =>
              /\ RecordSource(i).SourceNumber \in 1..Len(refDumps)
              /\ RecordSource(i).Start + RecordSource(i).Length
                    <= Len(FileBytes(refDumps[RecordSource(i).SourceNumber]))
    /\ ~BackwardSeek(1, [n \in 1..Len(refDumps) |-> 0])

\* a pack is written whose records name two slices of the second reference,
\* the later one not adjoining the earlier, and a slice of the first
C27_Witness ==
    /\ wpc = "closed"
    /\ Len(refDumps) = 2
    /\ \E i, j, k \in 1..Len(wout) :
          /\ i < j
          /\ NamesSource(i) /\ NamesSource(j) /\ NamesSource(k)
          /\ RecordSource(k).SourceNumber = 1
          /\ RecordSource(i).SourceNumber = 2
          /\ RecordSource(j).SourceNumber = 2
          /\ RecordSource(i).Length > 0
          /\ RecordSource(j).Start > RecordSource(i).Start + RecordSource(i).Length

-----------------------------------------------------------------------------
(* Properties of the Scanner *)

\* the bytes of the stream from the cursor of the last call on
BsRest == Slice(bsIn, bsRes.pre, Len(bsIn))

\* the cursor that a match of pattern a found at i of the rest leaves
BsPast(i, a) == bsRes.pre + (IF bsRes.inclusive THEN i + Len(a) ELSE i)

\* ScanTo has returned what the whole stream calls for, however it was read
ScanToRight(i) ==
    IF i = -1
    THEN bsRes.ret = -1 /\ bsRes.post = Len(bsIn)
    ELSE bsRes.ret = BsPast(i, bsRes.a) /\ bsRes.post = bsRes.ret

\* C28: however the source splits its bytes into reads, ScanTo(pattern,
\* inclusive, discard) returns, and it returns the stream offset of the first
\* occurrence of the pattern at or after the cursor (the offset just past it
\* when inclusive) and leaves the cursor there; when the pattern does not
\* occur before the end of the stream it consumes all the bytes and returns -1.
C28_ScanToChunking ==
    /\ [](bsRes.op = "ScanTo" => ScanToRight(IndexBytes(BsRest, bsRes.a)))
    /\ (bsCall.pc = "ScanTo") ~> (bsCall.pc = "idle")

\* the returned pattern tag is found at start of the rest and no pattern of
\* aChoices starts before it
ScanToAnyEarliest(start) ==
    /\ start >= 0
    /\ Slice(BsRest, start, start + Len(bsRes.tag)) = bsRes.tag
    /\ \A k \in 1..Len(bsRes.aChoices) :
           \/ IndexBytes(BsRest, bsRes.aChoices[k]) = -1
           \/ IndexBytes(BsRest, bsRes.aChoices[k]) >= start

\* C29: ScanToAny returns the match that starts earliest in the stream among
\* its patterns, with that pattern, for patterns of different lengths, one of
\* which may contain another, and for any split of the stream into reads; it
\* returns -1 only when no pattern occurs.
C29_ScanToAnyEarliest ==
    bsRes.op = "ScanToAny" =>
        IF bsRes.ret = -1
        THEN \A k \in 1..Len(bsRes.aChoices) : IndexBytes(BsRest, bsRes.aChoices[k]) = -1
        ELSE /\ \E k \in 1..Len(bsRes.aChoices) : bsRes.aChoices[k] = bsRes.tag
             /\ ScanToAnyEarliest(bsRes.ret - bsRes.pre
                                  - (IF bsRes.inclusive THEN Len(bsRes.tag) ELSE 0))

\* C30: PeekInt returns the whole decimal integer that starts at the cursor
\* (its first PeekIntLen digits at most), or -1 when the byte at the cursor
\* is no digit or the stream has ended, and leaves the cursor where it was,
\* however the source splits its bytes into reads.
C30_PeekIntComplete ==
    bsRes.op = "PeekInt" =>
        /\ ~bsRes.panic
        /\ bsRes.ret = BufParse(BsRest)
        /\ bsRes.post = bsRes.pre


\* Diff left base at the sum, not wrapped, of the base it started from (0
\* when hash zeroed the table) and len(A)
BaseAdvanced(s, t) ==
    \/ t.base = s.base + Len(t.A)
    \/ s.base + Len(t.A) > hMax /\ t.base = Len(t.A)

\* every entry of the table was written for a reference before the next one
StaleBelowBase(t) == \A k \in DOMAIN t.h : t.h[k] < t.base

\* C31: over any sequence of Diff calls on one MatchState, base grows by
\* len(A) in each call and never wraps around the range of hVal: when adding
\* the reference's length would overflow, the table is zeroed and base reset
\* first; so every entry of the table stays below the base of the next call,
\* and no call fails.
C31_Rebasing ==
    [][ms' # ms => ms'.panic = "" /\ BaseAdvanced(ms, ms') /\ StaleBelowBase(ms')]_vars

-----------------------------------------------------------------------------
(* The choice of the reference in WriteSegment *)

\* the key of the segment WriteSegment is about to read from the new dump
NextNewKey == ReadNext(srcs[1]).key

\* what the reference at srcs[i] answers when asked for that key now
Response(i) == ReadTo(srcs[i], NextNewKey)

\* srcs[f] is the first reference, in command-line order, with a non-empty
\* answer
FirstAnswering(f) ==
    /\ Len(Response(f).text) > 0
    /\ \A j \in 2..(f - 1) : Len(Response(j).text) = 0

\* WriteSegment asked the references up to f and took the answer of f (unless
\* it is longer than MaxSourceLength); it left those after f where they were
UsedReference(f) ==
    /\ \/ Response(f).sr.Length > MaxSourceLength
       \/ pending'.aText = Response(f).text /\ pending'.source = Response(f).sr
    /\ \A j \in 2..f : srcs'[j] = Response(j).s
    /\ \A j \in (f + 1)..Len(srcs) : srcs'[j] = srcs[j]

\* WriteSegment asked every reference and took SourceNotFound and no text
UsedNone ==
    /\ pending'.source = SourceNotFound
    /\ pending'.aText = <<>>
    /\ \A j \in 2..Len(srcs) : srcs'[j] = Response(j).s

\* WriteSegment asked every reference, none had an answer, and it took no
\* text and the SourceRef of the last answer (SourceNotFound without one)
UsedLastAnswer ==
    /\ pending'.aText = <<>>
    /\ pending'.source = IF Len(srcs) >= 2 THEN Response(Len(srcs)).sr ELSE SourceNotFound
    /\ pending'.source.Length = 0
    /\ \A j \in 2..Len(srcs) : srcs'[j] = Response(j).s

-----------------------------------------------------------------------------
(* The independence of the ReadAt calls *)

\* what the last ReadAt call returns on a readerAt that has served no call
FreshReadAt == ReadAt(NewReaderAt(IndexOf(bzFile)), bzFile, raRes.len, raRes.off)

\* C33: what readerAt.ReadAt returns for an offset and a length (bytes,
\* count and error) is what it returns for them on an instance that has
\* served no call before: no decompressed or run-length state of an earlier
\* call is carried into a later one.
C33_ReadAtIndependent ==
    raRes.called =>
        /\ raRes.data = FreshReadAt.data
        /\ raRes.n = FreshReadAt.n
        /\ raRes.err = FreshReadAt.err

-----------------------------------------------------------------------------
(* The progress of the writer *)

\* the tasks that are on the task channel or in a goroutine's hands
Outstanding == {i \in 0..(NumSlots - 1) : tasks[i].done = 0 /\ tasks[i].seq # 0}

-----------------------------------------------------------------------------
(* The segments of the chunker against its input *)

RECURSIVE CutTexts(_)

\* the texts of the segments segs, one after the other
CutTexts(segs) ==
    IF segs = <<>> THEN <<>> ELSE CutTexts(SubSeq(segs, 1, Len(segs) - 1)) \o segs[Len(segs)].text

\* C35: the segments ReadNext has returned so far are, one after the other,
\* the first bytes of the input, and all of the input once a segment has
\* come with io.EOF, whatever the reads and the growth and compaction of the
\* Scanner's buffer
C35_ChunkerPartition ==
    /\ Len(CutTexts(cutSegs)) <= Len(bsIn)
    /\ CutTexts(cutSegs) = SubSeq(bsIn, 1, Len(CutTexts(cutSegs)))
    /\ (cutSegs # <<>> /\ cutSegs[Len(cutSegs)].err = "EOF" => CutTexts(cutSegs) = bsIn)

\* three segments returned, the last with io.EOF, after the buffer has grown
C35_Witness ==
    /\ Len(cutSegs) >= 3
    /\ cutSegs[Len(cutSegs)].err = "EOF"
    /\ cutSegs[Len(cutSegs)].text # <<>>
    /\ bs.bcap > 8

\* C36: every segment ReadNext has returned with a SourceRef other than
\* SourceNotFound is the bytes [Start, Start+Length) of the file, and its
\* SourceNumber is the source number the chunker was made with
C36_SourceRefExact ==
    \A i \in 1..Len(cutSegs) :
        cutSegs[i].sr # SourceNotFound =>
            /\ cutSegs[i].sr.Start + cutSegs[i].sr.Length <= Len(bsIn)
            /\ cutSegs[i].text = Slice(bsIn, cutSegs[i].sr.Start,
                                       cutSegs[i].sr.Start + cutSegs[i].sr.Length)
            /\ cutSegs[i].sr.SourceNumber = cut.sourceNumber

\* a page that does not start the file has been returned by the chunker of
\* the second source, after a Discard has moved the buffer on
C36_Witness ==
    /\ cut.sourceNumber = 1
    /\ Len(cutSegs) >= 2
    /\ cutSegs[Len(cutSegs)].sr.Start > 0
    /\ cutSegs[Len(cutSegs)].sr.Length > 0
    /\ cutSegs[Len(cutSegs)].err = ""

\* C39: when CutStdinToStdout has left its loop, stdout holds every segment
\* ReadNext has returned, the one that came with io.EOF included
C39_CutComplete == cut.pc = "done" => cutOut = CutTexts(cutSegs)

-----------------------------------------------------------------------------
(* The end of the Scanner's calls *)

\* C37: on a source of finitely many bytes, a ScanTo or ScanToAny that has
\* begun to fill returns after finitely many rounds of its loop, whatever
\* state the calls before it have left the buffer in (PeekInt makes at most
\* two fills by its code)
C37_ScannerTerminates ==
    (bsCall.pc \in {"ScanTo", "ScanToAny"}) ~> (bsCall.pc \notin {"ScanTo", "ScanToAny"})

-----------------------------------------------------------------------------
(* The ready channel of a job *)

\* parallelReader.Read has gone once round its loop
PrRound == prCall.pc = "loop" /\ <<pr, prCall, prRes>>' # <<pr, prCall, prRes>>

\* C38: a run of a job puts at most one token into ready, and none is left
\* to put when it ends, also when the magic number or the block is bad; so
\* parallelReader.Read never takes a job's token, reads the job or
\* dispatches it again while a run of that job has not ended
C38_SingleReady ==
    [][/\ \A i \in 0..(NumJobs - 1) : jobs'[i].sent <= 1
       /\ PrRound => ~jobs[pr.blockNum % NumJobs].running]_vars

-----------------------------------------------------------------------------
(* The end of a wait on the HTTPFile *)

\* the caller c is in the wait of Read, ReadAt or waitForOffs
HfBlocked(c) == cl[c].pc \in {"recv", "parked", "send", "wait"}

\* C40: a caller that waits for an offset which the download has written to
\* the file, or after the download has ended, leaves its wait, whether or
\* not the network delivers anything more
C40_HttpLiveness ==
    \A c \in Clients :
        (HfBlocked(c) /\ (hf.file >= cl[c].e \/ DownloadEnded)) ~> ~HfBlocked(c)
=============================================================================
